---- MODULE Spec2Model ----
(***************************************************************************)
(* Provider acquisition and batch submission of the rehab ingestion        *)
(* services: the command-line run (main), ingest_npi_providers, the fetch  *)
(* coordinator NPIClient.fetch_all_providers, and batch_create_rehabs.     *)
(*                                                                         *)
(* Specification Spec explores the run from any of its four entry points.  *)
(* The two acquisition paths are explored on their own (SpecApi, SpecCsv,  *)
(* SpecParse); inside Spec a path is summarised by what it can hand back:  *)
(* a list of provider records or an exception.                             *)
(***************************************************************************)
EXTENDS Integers, Sequences, FiniteSets, TLC

\* ------------------------------------------------------------------ bounds
MaxData == 5          \* longest list of provider records handed to a run
MaxChunk == 2         \* largest chunk_size tried besides the default

MaxEntries == 3       \* most entries in the downloaded archive
MaxRows == 2          \* most rows in the extracted file
MaxRetryCount == 10   \* largest retry_count handed to _calculate_backoff_delay
JitterSteps == 10     \* random.uniform is sampled at 0, 1/JitterSteps, ..., 1
MaxStalls == 2        \* long stalls of the event loop within one live-API fetch
MaxAdders == 3        \* concurrent add_event calls on the EventStore

\* ------------------------------------------------------- program constants
DEFAULT_CHUNK_SIZE == 100
MAX_RESULTS_PER_REQUEST == 200
MAX_SKIP == 1000
MAX_TOTAL_RESULTS == 1200
MAX_REQUESTS == 6
RETRY_LIMIT == 5
INITIAL_RETRY_DELAY == 1
MAX_RETRY_DELAY == 32
RATE_LIMIT_DELAY == 1
RUN_TIME_LIMIT == 4 * 60 * 60
WAIT_TIME == 2 * 60 * 60

\* Python values.  A string is the sequence of its characters; a literal
\* written as a single piece stands for a string below every length limit.
PyNone == [type |-> "NoneType"]
PyList(s) == [type |-> "list", items |-> s]
PyStr(cs) == [type |-> "str", value |-> cs]
PyBool(b) == [type |-> "bool", value |-> b]
PyDict(f) == [type |-> "dict", items |-> f]
NaN == [type |-> "float", value |-> "nan"]
EmptyStr == PyStr(<<>>)
EmptyDict == PyDict(<<>>)

\* bool(v)
IsTruthy(v) ==
  CASE v.type = "NoneType" -> FALSE
    [] v.type = "str" -> v.value # <<>>
    [] v.type = "bool" -> v.value
    [] v.type = "list" -> v.items # <<>>
    [] v.type = "dict" -> DOMAIN v.items # {}
    [] OTHER -> TRUE

\* a or b
PyOr(a, b) == IF IsTruthy(a) THEN a ELSE b

\* str(v)
Str(v) ==
  CASE v.type = "str" -> v
    [] v.type = "NoneType" -> PyStr(<<"N", "o", "n", "e">>)
    [] v.type = "float" -> PyStr(<<"n", "a", "n">>)
    [] OTHER -> v

\* d.get(key, default)
Get(d, key, default) ==
  IF key \in DOMAIN d.items THEN d.items[key] ELSE default

RECURSIVE LStrip(_)
LStrip(cs) == IF cs # <<>> /\ Head(cs) = " " THEN LStrip(Tail(cs)) ELSE cs

RECURSIVE RStrip(_)
RStrip(cs) ==
  IF cs # <<>> /\ cs[Len(cs)] = " " THEN RStrip(SubSeq(cs, 1, Len(cs) - 1)) ELSE cs

\* s.strip()
Strip(cs) == RStrip(LStrip(cs))

\* The text str.format puts in place of a value.
Text(v) == Str(v).value

\* --------------------------------------------------------------- variables
VARIABLES
  entry,              \* operation the run was started at
  argv,               \* command-line arguments after the program name
  method,             \* acquisition mode string
  pc,                 \* position of the run
  apiCalls,           \* calls of fetch_all_providers_from_api
  csvCalls,           \* calls of fetch_all_providers_from_csv
  pathOutcome,        \* history: how the delegated acquisition path ended
  fetched,            \* outcome of fetch_all_providers
  providers,          \* ingest_npi_providers: the fetched list
  conversion_errors,  \* ingest_npi_providers: records whose conversion raised
  batchCalls,         \* calls of batch_create_rehabs
  data,               \* batch_create_rehabs: its input list
  chunk_size,         \* batch_create_rehabs: its chunk size
  start,              \* batch_create_rehabs: loop variable of range(0, total, chunk_size)
  total_successes,    \* batch_create_rehabs
  total_errors,       \* batch_create_rehabs
  responses,          \* batch_create_rehabs
  chunkLog,           \* history: every chunk handed to create_many_rehabs, with its outcome
  batchResult,        \* value returned by batch_create_rehabs
  ingestResult,       \* outcome of ingest_npi_providers
  exitStatus          \* status passed to sys.exit

\* The live-API fetch loop (NPIClient.fetch_all_providers_from_api).
VARIABLES
  serverTotal,        \* registry: number of records it holds per classification
  apc,                \* position of the fetch loop
  desc_i,             \* index of `desc` in taxonomy_descriptions
  request_num,        \* loop variable of range(MAX_REQUESTS)
  skip,               \* offset of the next page request
  total_fetched,      \* records collected for the current classification
  all_results,        \* raw records collected so far
  results,            \* value returned by the last page fetch
  retries,            \* fetch_providers_by_taxonomy_description: attempt counter
  delay,              \* fetch_providers_by_taxonomy_description: last backoff delay
  now,                \* time.time()
  start_time,         \* baseline of the run-budget check
  stalls,             \* long stalls taken so far
  pageLog,            \* history: every page fetch, with how it ended
  caught,             \* fetch_providers_by_taxonomy_description: except clause being run
  attempts,           \* history: HTTP requests issued by the current page fetch
  apiResult           \* outcome of fetch_all_providers_from_api

apiVars == <<serverTotal, apc, desc_i, request_num, skip, total_fetched,
             all_results, results, retries, delay, now, start_time, stalls,
             pageLog, caught, attempts, apiResult>>

\* The record normalizer of the live-API path (NPIClient._parse_npi_result).
VARIABLES
  raw,                \* the raw registry record handed to _parse_npi_result
  parsed              \* outcome of _parse_npi_result

parseVars == <<raw, parsed>>

\* The bulk path (NPIClient.fetch_all_providers_from_csv).
VARIABLES
  zipEntries,         \* namelist() of the archive at NPPES_ZIP_URL
  zipRows,            \* rows of the data file(s) packed in the archive
  staging,            \* TEMP_DIR: file name -> content
  cpc,                \* position of the bulk path
  extracted,          \* history: archive entries extracted into TEMP_DIR
  df,                 \* parse_csv_to_providers: the filtered DataFrame
  csvPath,            \* value returned by download_and_extract_csv
  csvResult           \* outcome of fetch_all_providers_from_csv

csvVars == <<zipEntries, zipRows, staging, cpc, extracted, df, csvPath,
             csvResult>>

\* NPIClient._calculate_backoff_delay called on its own.
VARIABLES
  retryCount,        \* the argument
  backoff             \* outcome: the delay returned, in milliseconds

backoffVars == <<retryCount, backoff>>

pureVars == <<parseVars, backoffVars>>

\* The event store of the enricher (EventStore) and the calls made on it.
VARIABLES
  events,             \* EventStore._events: the AgentEvent objects, by reference
  locked,             \* EventStore._lock is held
  next_id,            \* EventStore._next_id
  eventId,            \* the id field of the AgentEvent each add_event was given
  tpc,                \* position of every call
  snapshot,           \* list_events: its local list `events`
  list_limit,         \* list_events: its argument limit
  listed              \* outcome of list_events

eventVars == <<events, locked, next_id, eventId, tpc, snapshot, list_limit,
               listed>>

runVars == <<entry, argv, method, pc, apiCalls, csvCalls, pathOutcome, fetched,
             providers, conversion_errors, batchCalls, ingestResult, exitStatus>>
batchVars == <<data, chunk_size, start, total_successes, total_errors,
               responses, chunkLog, batchResult>>

\* ------------------------------------------------------------ small helpers
Min(a, b) == IF a < b THEN a ELSE b

Range(s) == {s[i] : i \in 1..Len(s)}

RECURSIVE SumSeq(_)
SumSeq(s) == IF s = <<>> THEN 0 ELSE Head(s) + SumSeq(Tail(s))

\* data[lo:hi] of Python, on a 1-indexed sequence (0-based, hi exclusive).
\* The slice taken one element too far.
Slice_Overlapping(s, lo, hi) == SubSeq(s, lo + 1, Min(hi + 1, Len(s)))

Slice(s, lo, hi) == SubSeq(s, lo + 1, Min(hi, Len(s)))

\* The records 1..n in order.
Records(n) == [i \in 1..n |-> i]

\* All subsequences of Records(n): the records kept are those of a chosen set.
KeepOnly(s, keep) == SelectSeq(s, LAMBDA r : r \in keep)

\* ------------------------------------------------------------ mode strings
ModeStrings == {"api", "csv", "API", "CSV", "invalid"}

\* str.lower(), and the case folding of re.IGNORECASE, on the strings used.
Lower(s) == CASE s = "API" -> "api"
              [] s = "CSV" -> "csv"
              [] s = "NPIDATA_PFILE_" -> "npidata_pfile_"
              [] s = ".CSV" -> ".csv"
              [] OTHER -> s

\* ----------------------------------------------------------------- results
EmptyResult == [total_successes |-> 0, total_errors |-> 0, responses |-> <<>>]

NoOutcome == [kind |-> "none"]
Returned(v) == [kind |-> "returned", value |-> v]
Raised(e) == [kind |-> "raised", error |-> e]
Exited(n) == [kind |-> "exited", status |-> n]

Exceptions == {"Exception", "KeyboardInterrupt"}

\* ------------------------------------------------------------------- Init
BatchIdle ==
  /\ data = <<>>
  /\ start = 0
  /\ total_successes = 0
  /\ total_errors = 0
  /\ responses = <<>>
  /\ chunkLog = <<>>
  /\ batchResult = NoOutcome

RunIdle ==
  /\ apiCalls = 0
  /\ csvCalls = 0
  /\ pathOutcome = NoOutcome
  /\ fetched = NoOutcome
  /\ providers = <<>>
  /\ conversion_errors = 0
  /\ ingestResult = NoOutcome
  /\ exitStatus = NoOutcome

\* python -m rehab_npi_puller.service [api|csv]
InitMain ==
  /\ entry = "main"
  /\ argv \in {<<>>} \cup {<<a>> : a \in ModeStrings}
  /\ method = "api"
  /\ pc = "main"
  /\ batchCalls = 0
  /\ RunIdle /\ BatchIdle
  /\ chunk_size = DEFAULT_CHUNK_SIZE

\* ingest_npi_providers(method, chunk_size=...)
InitIngest ==
  /\ entry = "ingest"
  /\ argv = <<>>
  /\ method \in ModeStrings
  /\ pc = "ingest"
  /\ batchCalls = 0
  /\ RunIdle /\ BatchIdle
  /\ chunk_size \in 0..MaxChunk

\* NPIClient().fetch_all_providers(method)
InitCoordinator ==
  /\ entry = "coordinator"
  /\ argv = <<>>
  /\ method \in ModeStrings
  /\ pc = "coordinator"
  /\ batchCalls = 0
  /\ RunIdle /\ BatchIdle
  /\ chunk_size = DEFAULT_CHUNK_SIZE

\* batch_create_rehabs(data, chunk_size)
InitBatch ==
  /\ entry = "batch"
  /\ argv = <<>>
  /\ method = "api"
  /\ pc = "batch"
  /\ batchCalls = 1
  /\ RunIdle
  /\ \E n \in 0..MaxData : data = Records(n)
  /\ chunk_size \in (0..MaxChunk) \cup {DEFAULT_CHUNK_SIZE}
  /\ start = 0
  /\ total_successes = 0
  /\ total_errors = 0
  /\ responses = <<>>
  /\ chunkLog = <<>>
  /\ batchResult = NoOutcome

\* ------------------------------------------------------------------- main
\* main(): the mode selector is read from argv, lower-cased and checked.
MainAcceptArgs ==
  /\ pc = "main"
  /\ \/ /\ Len(argv) > 0
        /\ Lower(argv[1]) \in {"api", "csv"}
        /\ method' = Lower(argv[1])
     \/ /\ Len(argv) = 0
        /\ method' = method
  /\ pc' = "ingest"
  /\ UNCHANGED <<entry, argv, apiCalls, csvCalls, pathOutcome, fetched, providers,
                 conversion_errors, batchCalls, ingestResult, exitStatus>>
  /\ UNCHANGED batchVars

\* An unrecognised selector replaced by the default instead of rejected.
MainRejectArgs_Proceeds ==
  /\ pc = "main"
  /\ Len(argv) > 0
  /\ Lower(argv[1]) \notin {"api", "csv"}
  /\ pc' = "ingest"
  /\ UNCHANGED <<entry, argv, method, apiCalls, csvCalls, pathOutcome, fetched, providers,
                 conversion_errors, batchCalls, ingestResult, exitStatus>>
  /\ UNCHANGED batchVars

MainRejectArgs ==
  /\ pc = "main"
  /\ Len(argv) > 0
  /\ Lower(argv[1]) \notin {"api", "csv"}
  /\ exitStatus' = Exited(1)
  /\ pc' = "exited"
  /\ UNCHANGED <<entry, argv, method, apiCalls, csvCalls, pathOutcome, fetched, providers,
                 conversion_errors, batchCalls, ingestResult>>
  /\ UNCHANGED batchVars

\* The status taken from the outcome's kind alone.
ExitCode_IgnoresErrors(outcome) ==
  IF outcome.kind = "returned" THEN 0
  ELSE IF outcome.error = "KeyboardInterrupt" THEN 130 ELSE 1

\* The status main exits with once ingest_npi_providers has ended.
ExitCode(outcome) ==
  IF outcome.kind = "returned"
    THEN IF outcome.value.total_errors > 0 THEN 1 ELSE 0
    ELSE IF outcome.error = "KeyboardInterrupt" THEN 130 ELSE 1

MainExit ==
  /\ pc = "ingest_done"
  /\ entry = "main"
  /\ exitStatus' = Exited(ExitCode(ingestResult))
  /\ pc' = "exited"
  /\ UNCHANGED <<entry, argv, method, apiCalls, csvCalls, pathOutcome, fetched, providers,
                 conversion_errors, batchCalls, ingestResult>>
  /\ UNCHANGED batchVars

\* ------------------------------------------------------ fetch_all_providers
\* The value fetch_all_providers hands back without delegating: a function
\* body that ends without a return statement yields None.
FallThrough(m) == Returned(PyNone)

\* ingest_npi_providers constructs the client and awaits fetch_all_providers.
IngestCallsFetch ==
  /\ pc = "ingest"
  /\ pc' = "coordinator"
  /\ UNCHANGED <<entry, argv, method, apiCalls, csvCalls, pathOutcome, fetched, providers,
                 conversion_errors, batchCalls, ingestResult, exitStatus>>
  /\ UNCHANGED batchVars

CoordinatorDelegatesApi ==
  /\ pc = "coordinator"
  /\ method = "api"
  /\ apiCalls' = apiCalls + 1
  /\ pc' = "api_path"
  /\ UNCHANGED <<entry, argv, method, csvCalls, pathOutcome, fetched, providers,
                 conversion_errors, batchCalls, ingestResult, exitStatus>>
  /\ UNCHANGED batchVars

CoordinatorDelegatesCsv ==
  /\ pc = "coordinator"
  /\ method # "api"
  /\ method = "csv"
  /\ csvCalls' = csvCalls + 1
  /\ pc' = "csv_path"
  /\ UNCHANGED <<entry, argv, method, apiCalls, pathOutcome, fetched, providers,
                 conversion_errors, batchCalls, ingestResult, exitStatus>>
  /\ UNCHANGED batchVars

CoordinatorFallsThrough ==
  /\ pc = "coordinator"
  /\ method # "api"
  /\ method # "csv"
  /\ fetched' = FallThrough(method)
  /\ pc' = "fetch_done"
  /\ UNCHANGED <<entry, argv, method, apiCalls, csvCalls, pathOutcome, providers,
                 conversion_errors, batchCalls, ingestResult, exitStatus>>
  /\ UNCHANGED batchVars

\* The delegated list handed back with its first record dropped.
ReturnAwait_DropsFirst(outcome) ==
  IF outcome.kind = "returned" /\ outcome.value.items # <<>>
    THEN Returned(PyList(Tail(outcome.value.items)))
    ELSE outcome

\* `return await self.fetch_all_providers_from_...()`: the value, or the
\* exception, of the awaited call is that of fetch_all_providers.
ReturnAwait(outcome) == outcome

\* The delegated path ends: it returns its record list, which
\* fetch_all_providers returns unchanged, or its exception propagates.
PathReturns ==
  /\ pc \in {"api_path", "csv_path"}
  /\ \E n \in 0..MaxData : pathOutcome' = Returned(PyList(Records(n)))
  /\ fetched' = ReturnAwait(pathOutcome')
  /\ pc' = "fetch_done"
  /\ UNCHANGED <<entry, argv, method, apiCalls, csvCalls, providers,
                 conversion_errors, batchCalls, ingestResult, exitStatus>>
  /\ UNCHANGED batchVars

PathRaises ==
  /\ pc \in {"api_path", "csv_path"}
  /\ \E e \in Exceptions : pathOutcome' = Raised(e)
  /\ fetched' = ReturnAwait(pathOutcome')
  /\ pc' = "fetch_done"
  /\ UNCHANGED <<entry, argv, method, apiCalls, csvCalls, providers,
                 conversion_errors, batchCalls, ingestResult, exitStatus>>
  /\ UNCHANGED batchVars

\* ----------------------------------------------------- ingest_npi_providers
\* Python's truth value of the fetched value: None and the empty list are falsy.
Truthy(v) == v.type = "list" /\ v.items # <<>>

\* The fetch raised and the zero result is returned in its place.
IngestFetchRaised_Swallowed ==
  /\ pc = "fetch_done"
  /\ entry \in {"main", "ingest"}
  /\ fetched.kind = "raised"
  /\ ingestResult' = Returned(EmptyResult)
  /\ pc' = "ingest_done"
  /\ UNCHANGED <<entry, argv, method, apiCalls, csvCalls, pathOutcome, fetched,
                 providers, conversion_errors, batchCalls, exitStatus>>
  /\ UNCHANGED batchVars

\* The fetch raised: the exception is re-raised to the caller.
IngestFetchRaised ==
  /\ pc = "fetch_done"
  /\ entry \in {"main", "ingest"}
  /\ fetched.kind = "raised"
  /\ ingestResult' = fetched
  /\ pc' = "ingest_done"
  /\ UNCHANGED <<entry, argv, method, apiCalls, csvCalls, pathOutcome, fetched, providers,
                 conversion_errors, batchCalls, exitStatus>>
  /\ UNCHANGED batchVars

\* `if not providers`: the zero result is returned at once.
IngestNoProviders ==
  /\ pc = "fetch_done"
  /\ entry \in {"main", "ingest"}
  /\ fetched.kind = "returned"
  /\ ~Truthy(fetched.value)
  /\ ingestResult' = Returned(EmptyResult)
  /\ pc' = "ingest_done"
  /\ UNCHANGED <<entry, argv, method, apiCalls, csvCalls, pathOutcome, fetched, providers,
                 conversion_errors, batchCalls, exitStatus>>
  /\ UNCHANGED batchVars

\* The conversion loop (no suspension point in it), then the call of
\* batch_create_rehabs with the records that converted.  CreateProspectiveRehabInput
\* is generated client code: which records it rejects is the environment's choice.
IngestConvertAndSubmit ==
  /\ pc = "fetch_done"
  /\ entry \in {"main", "ingest"}
  /\ fetched.kind = "returned"
  /\ Truthy(fetched.value)
  /\ providers' = fetched.value.items
  /\ \E keep \in SUBSET Range(fetched.value.items) :
       /\ data' = KeepOnly(fetched.value.items, keep)
       /\ conversion_errors' = Len(fetched.value.items) - Cardinality(keep)
  /\ batchCalls' = batchCalls + 1
  /\ start' = 0
  /\ total_successes' = 0
  /\ total_errors' = 0
  /\ responses' = <<>>
  /\ pc' = "batch"
  /\ UNCHANGED <<entry, argv, method, apiCalls, csvCalls, pathOutcome, fetched,
                 ingestResult, exitStatus, chunk_size, chunkLog, batchResult>>

\* `return result`: the value of batch_create_rehabs is handed on as it is.
IngestReturn ==
  /\ pc = "batch_done"
  /\ batchResult.kind = "returned"
  /\ ingestResult' = batchResult
  /\ pc' = "ingest_done"
  /\ UNCHANGED <<entry, argv, method, apiCalls, csvCalls, pathOutcome, fetched, providers,
                 conversion_errors, batchCalls, exitStatus>>
  /\ UNCHANGED batchVars

\* batch_create_rehabs raised: `except Exception: raise` hands the exception
\* on, and one that is no Exception passes the clause by.
IngestBatchRaised ==
  /\ pc = "batch_done"
  /\ batchResult.kind = "raised"
  /\ ingestResult' = batchResult
  /\ pc' = "ingest_done"
  /\ UNCHANGED <<entry, argv, method, apiCalls, csvCalls, pathOutcome, fetched,
                 providers, conversion_errors, batchCalls, exitStatus>>
  /\ UNCHANGED batchVars

\* ------------------------------------------------------ batch_create_rehabs
\* The loop bound of batch_create_rehabs taken inclusively.
HasNextChunk_Inclusive(st, total) == st <= total

\* for start in range(0, total, chunk_size): another iteration follows.
HasNextChunk(st, total) == st < total

\* range(0, total, chunk_size) raises ValueError for a step of zero.
RangeRaises == chunk_size = 0

\* The response of create_many_rehabs for chunk number k: created is the
\* length of its create_many_rehabs list.  A response without such a list is
\* one on which len(resp.create_many_rehabs) raises.
Response(k, created) == [chunk |-> k, created |-> created]
ResponseWithoutList(k) == [chunk |-> k]

ChunkNumber == start \div chunk_size + 1

Batch == Slice(data, start, start + chunk_size)

Logged(outcome) == Append(chunkLog, [records |-> Batch, outcome |-> outcome])

\* try body: the call returns, the response is appended, its count is added.
SuccessUpdate(resp) ==
  /\ responses' = Append(responses, resp)
  /\ total_successes' = total_successes + resp.created
  /\ total_errors' = total_errors

\* except: the call itself raised.
CallRaisedUpdate ==
  /\ responses' = responses
  /\ total_successes' = total_successes
  /\ total_errors' = total_errors + 1

\* except: the call returned, `responses.append(resp)` ran, and then
\* len(resp.create_many_rehabs) raised.
CountRaisedUpdate(resp) ==
  /\ responses' = Append(responses, resp)
  /\ total_successes' = total_successes
  /\ total_errors' = total_errors + 1

ChunkSucceeds ==
  /\ pc = "batch"
  /\ ~RangeRaises
  /\ HasNextChunk(start, Len(data))
  /\ \E created \in 0..Len(Batch) : SuccessUpdate(Response(ChunkNumber, created))
  /\ chunkLog' = Logged("ok")
  /\ start' = start + chunk_size
  /\ UNCHANGED <<data, chunk_size, batchResult>>
  /\ UNCHANGED runVars

ChunkCallRaises ==
  /\ pc = "batch"
  /\ ~RangeRaises
  /\ HasNextChunk(start, Len(data))
  /\ CallRaisedUpdate
  /\ chunkLog' = Logged("call_raised")
  /\ start' = start + chunk_size
  /\ UNCHANGED <<data, chunk_size, batchResult>>
  /\ UNCHANGED runVars

ChunkCountRaises ==
  /\ pc = "batch"
  /\ ~RangeRaises
  /\ HasNextChunk(start, Len(data))
  /\ CountRaisedUpdate(ResponseWithoutList(ChunkNumber))
  /\ chunkLog' = Logged("count_raised")
  /\ start' = start + chunk_size
  /\ UNCHANGED <<data, chunk_size, batchResult>>
  /\ UNCHANGED runVars

\* The awaited create_many_rehabs is interrupted: KeyboardInterrupt is no
\* Exception, the except clause does not apply and it leaves the function.
ChunkInterrupted ==
  /\ pc = "batch"
  /\ ~RangeRaises
  /\ HasNextChunk(start, Len(data))
  /\ chunkLog' = Logged("interrupted")
  /\ batchResult' = Raised("KeyboardInterrupt")
  /\ pc' = IF entry = "batch" THEN "done" ELSE "batch_done"
  /\ UNCHANGED <<entry, argv, method, apiCalls, csvCalls, pathOutcome, fetched,
                 providers, conversion_errors, batchCalls, ingestResult, exitStatus>>
  /\ UNCHANGED <<data, chunk_size, start, total_successes, total_errors,
                 responses>>

\* The for statement evaluates range(0, total, 0): the ValueError is raised
\* outside the try block and leaves batch_create_rehabs.
BatchRangeRaises ==
  /\ pc = "batch"
  /\ RangeRaises
  /\ batchResult' = Raised("ValueError")
  /\ pc' = IF entry = "batch" THEN "done" ELSE "batch_done"
  /\ UNCHANGED <<entry, argv, method, apiCalls, csvCalls, pathOutcome, fetched, providers,
                 conversion_errors, batchCalls, ingestResult, exitStatus>>
  /\ UNCHANGED <<data, chunk_size, start, total_successes, total_errors,
                 responses, chunkLog>>

BatchReturn ==
  /\ pc = "batch"
  /\ ~RangeRaises
  /\ ~HasNextChunk(start, Len(data))
  /\ batchResult' = Returned([total_successes |-> total_successes,
                              total_errors |-> total_errors,
                              responses |-> responses])
  /\ pc' = IF entry = "batch" THEN "done" ELSE "batch_done"
  /\ UNCHANGED <<entry, argv, method, apiCalls, csvCalls, pathOutcome, fetched, providers,
                 conversion_errors, batchCalls, ingestResult, exitStatus>>
  /\ UNCHANGED <<data, chunk_size, start, total_successes, total_errors,
                 responses, chunkLog>>

\* ------------------------------------------- the registry (live-API server)
\* NPIClient.__init__: the default classification descriptions.
taxonomy_descriptions ==
  <<"Substance Abuse Rehabilitation Facility",
    "Substance Abuse Treatment, Children">>

\* Numbers of records the registry may hold for one classification.
Totals == {0, 150, 200, 350, 1200, 1300}

Max(a, b) == IF a > b THEN a ELSE b

\* A run of consecutive registry records of classification d: the records
\* numbered first .. first + count - 1, in the registry's order.  A list of
\* raw records is kept as the sequence of the runs it is made of.
Run(d, first, count) == [desc |-> d, first |-> first, count |-> count]

\* The page the registry serves for (description d, limit, skip).
ServerPage(d, limit, sk) ==
  Run(d, sk + 1, Min(limit, Max(0, serverTotal[d] - sk)))

RECURSIVE RecordCount(_)
RecordCount(runs) ==
  IF runs = <<>> THEN 0 ELSE Head(runs).count + RecordCount(Tail(runs))

\* The records of the page put in front of those already held.
Extend_Prepends(runs, page) == IF page.count = 0 THEN runs ELSE <<page>> \o runs

\* A page whose records are already held, under whatever classification, is
\* not taken a second time.
Extend_SkipsSeen(runs, page) ==
  IF page.count = 0 \/ \E k \in 1..Len(runs) : runs[k].first = page.first
    THEN runs
    ELSE Append(runs, page)

\* list.extend(results): the records of the page follow those already held.
Extend(runs, page) == IF page.count = 0 THEN runs ELSE Append(runs, page)

\* ------------------------------------------------ _calculate_backoff_delay
RECURSIVE Pow2(_)
Pow2(n) == IF n = 0 THEN 1 ELSE 2 * Pow2(n - 1)

\* The delay without the cap at MAX_RETRY_DELAY.
BackoffBase_Uncapped(retry_count) == INITIAL_RETRY_DELAY * Pow2(retry_count)

\* min(INITIAL_RETRY_DELAY * 2 ** retry_count, MAX_RETRY_DELAY), in seconds.
BackoffBase(retry_count) ==
  Min(INITIAL_RETRY_DELAY * Pow2(retry_count), MAX_RETRY_DELAY)

\* The delays of the attempt index after the increment.
BackoffDelays_AfterIncrement(retry_count) ==
  LET base == BackoffBase(retry_count + 1) * 1000
  IN  {base, base + base \div 10}

\* Delays are kept in milliseconds; random.uniform(0, delay * 0.1) is sampled
\* at its two ends.
BackoffDelays(retry_count) ==
  LET base == BackoffBase(retry_count) * 1000
  IN  {base, base + base \div 10}

\* _calculate_backoff_delay(retry_count) in milliseconds, random.uniform(0,
\* delay * 0.1) returning the fraction k / JitterSteps of its range.
CalculateBackoffDelay(n, k) ==
  LET delay_ms == BackoffBase(n) * 1000
      jitter == ((delay_ms \div 10) * k) \div JitterSteps
  IN  delay_ms + jitter

BackoffIdle ==
  /\ retryCount = 0
  /\ backoff = NoOutcome

\* _calculate_backoff_delay called on its own, as the unit tests call it.
InitBackoff ==
  /\ retryCount \in 0..MaxRetryCount
  /\ backoff = NoOutcome

CalculateBackoff ==
  /\ backoff = NoOutcome
  /\ \E k \in 0..JitterSteps :
       backoff' = Returned(CalculateBackoffDelay(retryCount, k))
  /\ UNCHANGED retryCount

\* ------------------------------------------------------------------ clock
\* The clock is read in seconds.  Requests and the short sleeps are far below
\* the run-time limit; what can carry the elapsed time over the limit is a
\* long stall, which any suspension point may suffer.
TimeSteps == {0, 3 * 60 * 60}

Elapse(dt) ==
  /\ dt > 0 => stalls < MaxStalls
  /\ now' = now + dt
  /\ stalls' = IF dt > 0 THEN stalls + 1 ELSE stalls

\* ------------------------------- fetch_providers_by_taxonomy_description
\* What one HTTP attempt can end in, and the except clause that takes it.
AttemptFailures ==
  {"timeout", "transport_error", "http_status_error", "malformed_body",
   "unexpected_exception"}

\* The except clauses without the final `except Exception`.
Handler_NoCatchAll(outcome) ==
  CASE outcome = "timeout" -> "asyncio.TimeoutError"
    [] outcome \in {"transport_error", "http_status_error"} -> "aiohttp.ClientError"
    [] OTHER -> "unhandled"

Handler(outcome) ==
  CASE outcome = "timeout" -> "asyncio.TimeoutError"
    [] outcome \in {"transport_error", "http_status_error"} -> "aiohttp.ClientError"
    [] outcome \in {"malformed_body", "unexpected_exception"} -> "Exception"
    [] OTHER -> "unhandled"

\* The retry ceiling taken inclusively.
MayAttempt_Inclusive(n) == n <= RETRY_LIMIT

\* while retries < self.RETRY_LIMIT
MayAttempt(n) == n < RETRY_LIMIT

\* The call begins: retries = 0, and the while loop is entered.
BeginPageFetch ==
  /\ retries' = 0
  /\ delay' = 0
  /\ caught' = "none"
  /\ attempts' = 0
  /\ apc' = "attempt"

\* The call ends, handing `page` back to the fetch loop.
EndPageFetch(page, how) ==
  /\ results' = page
  /\ pageLog' = Append(pageLog, [desc |-> desc_i, skip |-> skip,
                                 count |-> page.count, how |-> how])
  /\ apc' = "page_returned"

\* 2xx with a JSON object: data.get("results", []) is returned.
AttemptReturnsPage ==
  /\ apc = "attempt"
  /\ \E dt \in TimeSteps : Elapse(dt)
  /\ attempts' = attempts + 1
  /\ \E withKey \in BOOLEAN :
       IF withKey
         THEN EndPageFetch(ServerPage(desc_i, MAX_RESULTS_PER_REQUEST, skip), "page")
         ELSE EndPageFetch(Run(desc_i, skip + 1, 0), "no_results_key")
  /\ UNCHANGED <<serverTotal, desc_i, request_num, skip, total_fetched,
                 all_results, retries, delay, caught, start_time, apiResult>>

\* 429: the delay is computed and slept inside the try block.
AttemptRateLimited ==
  /\ apc = "attempt"
  /\ \E dt \in TimeSteps : Elapse(dt)
  /\ attempts' = attempts + 1
  /\ delay' \in BackoffDelays(retries)
  /\ apc' = "sleep_429"
  /\ UNCHANGED <<serverTotal, desc_i, request_num, skip, total_fetched,
                 all_results, results, retries, caught, start_time, pageLog,
                 apiResult>>

\* An exception inside the try block: its except clause computes the delay,
\* increments retries and sleeps; an exception no clause takes leaves the
\* function and the fetch loop.
AttemptFails ==
  /\ apc = "attempt"
  /\ \E dt \in TimeSteps : Elapse(dt)
  /\ attempts' = attempts + 1
  /\ \E outcome \in AttemptFailures :
       IF Handler(outcome) = "unhandled"
         THEN /\ apiResult' = Raised(outcome)
              /\ apc' = "raised"
              /\ UNCHANGED <<delay, retries, caught>>
         ELSE /\ caught' = Handler(outcome)
              /\ delay' \in BackoffDelays(retries)
              /\ retries' = retries + 1
              /\ apc' = "sleep_backoff"
              /\ UNCHANGED apiResult
  /\ UNCHANGED <<serverTotal, desc_i, request_num, skip, total_fetched,
                 all_results, results, start_time, pageLog>>

\* After a sleep another attempt follows, whatever the count.
RetryOrGiveUp_NeverGivesUp(n) ==
  /\ apc' = "attempt"
  /\ UNCHANGED <<results, pageLog>>

\* After a sleep the while condition is tested again; when it fails the
\* function returns [].
RetryOrGiveUp(n) ==
  IF MayAttempt(n)
    THEN /\ apc' = "attempt"
         /\ UNCHANGED <<results, pageLog>>
    ELSE EndPageFetch(Run(desc_i, skip + 1, 0), "exhausted")

\* The sleep of the 429 branch ends and the attempt is not counted.
RateLimitSleepEnds_NotCounted ==
  /\ apc = "sleep_429"
  /\ \E dt \in TimeSteps : Elapse(dt)
  /\ retries' = retries
  /\ delay' = 0
  /\ RetryOrGiveUp(retries)
  /\ UNCHANGED <<serverTotal, desc_i, request_num, skip, total_fetched,
                 all_results, caught, attempts, start_time, apiResult>>

\* The sleep of the 429 branch ends: retries += 1; continue.
RateLimitSleepEnds ==
  /\ apc = "sleep_429"
  /\ \E dt \in TimeSteps : Elapse(dt)
  /\ retries' = retries + 1
  /\ delay' = 0
  /\ RetryOrGiveUp(retries + 1)
  /\ UNCHANGED <<serverTotal, desc_i, request_num, skip, total_fetched,
                 all_results, caught, attempts, start_time, apiResult>>

\* The sleep of an except clause ends and the run budget is checked again
\* before the next attempt.
BackoffSleepEnds_RechecksBudget ==
  /\ apc = "sleep_backoff"
  /\ \E dt \in TimeSteps : Elapse(dt)
  /\ delay' = 0
  /\ caught' = "none"
  /\ IF MayAttempt(retries)
       THEN /\ apc' = "budget_check"
            /\ UNCHANGED <<results, pageLog>>
       ELSE EndPageFetch(Run(desc_i, skip + 1, 0), "exhausted")
  /\ UNCHANGED <<serverTotal, desc_i, request_num, skip, total_fetched,
                 all_results, retries, attempts, start_time, apiResult>>

\* The sleep of an except clause ends.
BackoffSleepEnds ==
  /\ apc = "sleep_backoff"
  /\ \E dt \in TimeSteps : Elapse(dt)
  /\ delay' = 0
  /\ caught' = "none"
  /\ RetryOrGiveUp(retries)
  /\ UNCHANGED <<serverTotal, desc_i, request_num, skip, total_fetched,
                 all_results, retries, attempts, start_time, apiResult>>

\* --------------------------------------------- fetch_all_providers_from_api
\* The next classification starts with a baseline of its own.
BeginClassification_ResetsBaseline ==
  /\ apc = "next_desc"
  /\ desc_i <= Len(taxonomy_descriptions)
  /\ skip' = 0
  /\ total_fetched' = 0
  /\ request_num' = 0
  /\ start_time' = now
  /\ apc' = "budget_check"
  /\ UNCHANGED <<serverTotal, desc_i, all_results, results, retries, delay,
                 now, stalls, pageLog, caught, attempts, apiResult>>

\* for desc in self.taxonomy_descriptions: the next classification starts.
BeginClassification ==
  /\ apc = "next_desc"
  /\ desc_i <= Len(taxonomy_descriptions)
  /\ skip' = 0
  /\ total_fetched' = 0
  /\ request_num' = 0
  /\ apc' = "budget_check"
  /\ UNCHANGED <<serverTotal, desc_i, all_results, results, retries, delay,
                 now, start_time, stalls, pageLog, caught, attempts, apiResult>>

\* if time.time() - start_time > self.RUN_TIME_LIMIT
BudgetExceeded == now - start_time > RUN_TIME_LIMIT

\* The budget is exceeded: the loop sleeps for WAIT_TIME.
BeginCooldown ==
  /\ apc = "budget_check"
  /\ BudgetExceeded
  /\ apc' = "cooldown"
  /\ UNCHANGED <<serverTotal, desc_i, request_num, skip, total_fetched,
                 all_results, results, retries, delay, now, start_time, stalls,
                 pageLog, caught, attempts, apiResult>>

\* The cooldown ends and the page is requested, the baseline left as it was.
EndCooldown_KeepsBaseline ==
  /\ apc = "cooldown"
  /\ now' = now + WAIT_TIME
  /\ BeginPageFetch
  /\ UNCHANGED <<serverTotal, desc_i, request_num, skip, total_fetched,
                 all_results, results, stalls, pageLog, apiResult, start_time>>

\* The cooldown ends: the baseline is reset and the page is requested.
EndCooldown ==
  /\ apc = "cooldown"
  /\ now' = now + WAIT_TIME
  /\ start_time' = now'
  /\ BeginPageFetch
  /\ UNCHANGED <<serverTotal, desc_i, request_num, skip, total_fetched,
                 all_results, results, stalls, pageLog, apiResult>>

\* The budget is not exceeded: the page is requested.
RequestPage ==
  /\ apc = "budget_check"
  /\ ~BudgetExceeded
  /\ BeginPageFetch
  /\ UNCHANGED <<serverTotal, desc_i, request_num, skip, total_fetched,
                 all_results, results, now, start_time, stalls, pageLog,
                 apiResult>>

\* if len(results) < self.MAX_RESULTS_PER_REQUEST
IsLastPage(count) == count < MAX_RESULTS_PER_REQUEST

\* Neither ceiling tested.
LimitReached_Never(sk, count) == FALSE

\* The offset ceiling taken inclusively.
LimitReached_Inclusive(sk, count) == sk >= MAX_SKIP \/ count >= MAX_TOTAL_RESULTS

\* if skip > self.MAX_SKIP or total_fetched >= self.MAX_TOTAL_RESULTS
LimitReached(sk, count) == sk > MAX_SKIP \/ count >= MAX_TOTAL_RESULTS

\* break: the inner loop is left and the next classification follows.
LeaveClassification ==
  /\ desc_i' = desc_i + 1
  /\ apc' = "next_desc"

\* An empty page taken as the end of the whole fetch (return, not break).
EmptyPageEndsFetch ==
  /\ apc = "page_returned"
  /\ results.count = 0
  /\ desc_i' = Len(taxonomy_descriptions) + 1
  /\ apc' = "next_desc"
  /\ UNCHANGED <<serverTotal, request_num, skip, total_fetched, all_results,
                 results, retries, delay, now, start_time, stalls, pageLog,
                 caught, attempts, apiResult>>

\* `if not results: break`
EmptyPageEndsClassification ==
  /\ apc = "page_returned"
  /\ results.count = 0
  /\ LeaveClassification
  /\ UNCHANGED <<serverTotal, request_num, skip, total_fetched, all_results,
                 results, retries, delay, now, start_time, stalls, pageLog,
                 caught, attempts, apiResult>>

\* A non-empty page is collected and the next page requested with no sleep
\* in between.
CollectPage_NoDelay ==
  /\ apc = "page_returned"
  /\ results.count > 0
  /\ all_results' = Extend(all_results, results)
  /\ total_fetched' = total_fetched + results.count
  /\ IF IsLastPage(results.count)
       THEN /\ LeaveClassification
            /\ skip' = skip
            /\ request_num' = request_num
       ELSE /\ skip' = skip + MAX_RESULTS_PER_REQUEST
            /\ IF LimitReached(skip', total_fetched')
                 THEN LeaveClassification /\ request_num' = request_num
                 ELSE /\ apc' = "budget_check"
                      /\ request_num' = request_num + 1
                      /\ desc_i' = desc_i
  /\ UNCHANGED <<serverTotal, results, retries, delay, now,
                 start_time, stalls, pageLog, caught, attempts, apiResult>>

\* A non-empty page is collected; a short page, or a ceiling, ends the
\* classification, otherwise the rate-limit sleep begins.
CollectPage ==
  /\ apc = "page_returned"
  /\ results.count > 0
  /\ all_results' = Extend(all_results, results)
  /\ total_fetched' = total_fetched + results.count
  /\ IF IsLastPage(results.count)
       THEN /\ LeaveClassification
            /\ skip' = skip
       ELSE /\ skip' = skip + MAX_RESULTS_PER_REQUEST
            /\ IF LimitReached(skip', total_fetched')
                 THEN LeaveClassification
                 ELSE /\ apc' = "rate_delay"
                      /\ desc_i' = desc_i
  /\ UNCHANGED <<serverTotal, request_num, results, retries, delay, now,
                 start_time, stalls, pageLog, caught, attempts, apiResult>>

\* await asyncio.sleep(self.RATE_LIMIT_DELAY), then the next request_num of
\* range(MAX_REQUESTS), if there is one.
RateLimitDelayEnds ==
  /\ apc = "rate_delay"
  /\ \E dt \in TimeSteps : Elapse(dt)
  /\ request_num' = request_num + 1
  /\ IF request_num + 1 < MAX_REQUESTS
       THEN /\ apc' = "budget_check"
            /\ desc_i' = desc_i
       ELSE LeaveClassification
  /\ UNCHANGED <<serverTotal, skip, total_fetched, all_results, results,
                 retries, delay, start_time, pageLog, caught, attempts, apiResult>>

\* _parse_npi_result applied to every raw record: one parsed record each, in
\* the same order.
ParseRun(run) == [run EXCEPT !.desc = <<"parsed", run.desc>>]
ParseAll(runs) == [i \in 1..Len(runs) |-> ParseRun(runs[i])]

\* Every classification is done: the records are parsed and returned.
ApiReturn ==
  /\ apc = "next_desc"
  /\ desc_i > Len(taxonomy_descriptions)
  /\ apiResult' = Returned(PyList(ParseAll(all_results)))
  /\ apc' = "done"
  /\ UNCHANGED <<serverTotal, desc_i, request_num, skip, total_fetched,
                 all_results, results, retries, delay, now, start_time, stalls,
                 pageLog, caught, attempts>>

ApiIdle ==
  /\ serverTotal = [d \in 1..Len(taxonomy_descriptions) |-> 0]
  /\ apc = "idle"
  /\ desc_i = 1
  /\ request_num = 0
  /\ skip = 0
  /\ total_fetched = 0
  /\ all_results = <<>>
  /\ results = Run(1, 1, 0)
  /\ retries = 0
  /\ delay = 0
  /\ now = 0
  /\ start_time = 0
  /\ stalls = 0
  /\ pageLog = <<>>
  /\ caught = "none"
  /\ attempts = 0
  /\ apiResult = NoOutcome

\* fetch_all_providers_from_api(): all_results = [], start_time = time.time().
InitApi ==
  /\ serverTotal \in [1..Len(taxonomy_descriptions) -> Totals]
  /\ apc = "next_desc"
  /\ desc_i = 1
  /\ request_num = 0
  /\ skip = 0
  /\ total_fetched = 0
  /\ all_results = <<>>
  /\ results = Run(1, 1, 0)
  /\ retries = 0
  /\ delay = 0
  /\ now = 0
  /\ start_time = now
  /\ stalls = 0
  /\ pageLog = <<>>
  /\ caught = "none"
  /\ attempts = 0
  /\ apiResult = NoOutcome

\* ---------------------------------------------------- _parse_npi_result
\* next((x for x in xs if P(x)), None)
FirstWhere(xs, P(_)) ==
  IF \E i \in 1..Len(xs) : P(xs[i])
    THEN xs[CHOOSE i \in 1..Len(xs) :
              P(xs[i]) /\ \A j \in 1..(i - 1) : ~P(xs[j])]
    ELSE PyNone

\* The first entry whether flagged or not, else None.
PickTaxonomy_AlwaysFirst(result) ==
  LET taxonomies == Get(result, "taxonomies", PyList(<<>>))
  IN  IF IsTruthy(taxonomies) THEN taxonomies.items[1] ELSE PyNone

\* The entry flagged primary, else the first entry, else None.
PickTaxonomy(result) ==
  LET taxonomies == Get(result, "taxonomies", PyList(<<>>))
      flagged == FirstWhere(taxonomies.items,
                            LAMBDA t : IsTruthy(Get(t, "primary", PyNone)))
  IN  IF ~IsTruthy(flagged) /\ IsTruthy(taxonomies)
        THEN taxonomies.items[1]
        ELSE flagged

\* The LOCATION address, else the first address, else None.
PickAddress(result) ==
  LET addresses == Get(result, "addresses", PyList(<<>>))
      location == FirstWhere(addresses.items,
                    LAMBDA a : Get(a, "address_purpose", PyNone)
                                 = PyStr(<<"LOCATION">>))
  IN  IF ~IsTruthy(location) /\ IsTruthy(addresses)
        THEN addresses.items[1]
        ELSE location

\* f"{first_name} {last_name}".strip() when either part is truthy, else None.
ApiOfficial(basic) ==
  LET first_name == Get(basic, "authorized_official_first_name", EmptyStr)
      last_name == Get(basic, "authorized_official_last_name", EmptyStr)
  IN  IF IsTruthy(first_name) \/ IsTruthy(last_name)
        THEN PyStr(Strip(Text(first_name) \o <<" ">> \o Text(last_name)))
        ELSE PyNone

\* npi_number = str(result.get("number"))
ApiNpiNumber(result) == Str(Get(result, "number", PyNone))

\* The dictionary _parse_npi_result returns.
ParseNpiResult(result) ==
  LET basic == Get(result, "basic", EmptyDict)
      taxonomy == PickTaxonomy(result)
      address == PickAddress(result)
      Field(key) == IF IsTruthy(address) THEN Get(address, key, EmptyStr)
                    ELSE EmptyStr
  IN  [npi_number |-> ApiNpiNumber(result),
       organization_name |-> PyOr(Get(basic, "organization_name", PyNone),
                                  Get(basic, "name", PyNone)),
       address |-> Field("address_1"),
       city |-> Field("city"),
       state |-> Field("state"),
       postal_code |-> Field("postal_code"),
       phone |-> Field("telephone_number"),
       taxonomy_code |-> IF IsTruthy(taxonomy)
                           THEN Get(taxonomy, "code", PyNone) ELSE PyNone,
       taxonomy_desc |-> IF IsTruthy(taxonomy)
                           THEN Get(taxonomy, "desc", PyNone) ELSE PyNone,
       authorized_official |-> ApiOfficial(basic),
       last_updated |-> Get(basic, "last_updated", PyNone)]

\* Raw registry records: each key may be missing; "number" may be null.
Restrict(f, keys) == [k \in keys |-> f[k]]

SubDicts(f, optional) ==
  {PyDict(Restrict(f, (DOMAIN f) \ drop)) : drop \in SUBSET optional}

NPI10 == <<"1", "2", "3", "4", "5", "6", "7", "8", "9", "0">>

RawBasics ==
  UNION {SubDicts([organization_name |-> PyStr(<<"Hope House">>),
                   name |-> PyStr(<<"HOPE">>),
                   last_updated |-> PyStr(<<"2024-01-15">>),
                   authorized_official_first_name |-> first,
                   authorized_official_middle_name |-> middle,
                   authorized_official_last_name |-> last],
                  {"organization_name", "name", "last_updated"}) :
           first \in {EmptyStr, PyStr(<<"J">>)},
           middle \in {EmptyStr, PyStr(<<"M">>)},
           last \in {EmptyStr, PyStr(<<"D">>)}}

Taxonomy(code, primary) ==
  PyDict([code |-> PyStr(<<code>>), desc |-> PyStr(<<"desc of ", code>>),
          primary |-> PyBool(primary)])

RawTaxonomyLists ==
  {<<>>,
   <<Taxonomy("324500000X", TRUE)>>,
   <<Taxonomy("261QR0405X", FALSE), Taxonomy("324500000X", TRUE)>>,
   <<Taxonomy("3245S0500X", TRUE), Taxonomy("261QR0405X", FALSE)>>,
   <<Taxonomy("261QR0405X", FALSE), Taxonomy("3245S0500X", FALSE)>>}

Address(purpose, line) ==
  PyDict([address_purpose |-> PyStr(<<purpose>>), address_1 |-> PyStr(<<line>>),
          city |-> PyStr(<<"Austin">>), state |-> PyStr(<<"TX">>),
          postal_code |-> PyStr(<<"78701">>),
          telephone_number |-> PyStr(<<"512-555-0100">>)])

RawAddressLists ==
  {<<>>,
   <<Address("MAILING", "PO Box 1")>>,
   <<Address("MAILING", "PO Box 1"), Address("LOCATION", "1 Main St")>>}

RawRecords ==
  UNION {SubDicts([number |-> number, basic |-> basic,
                   taxonomies |-> PyList(taxonomies),
                   addresses |-> PyList(addresses)],
                  {"number", "basic", "taxonomies", "addresses"}) :
           number \in {PyStr(NPI10), PyNone},
           basic \in RawBasics,
           taxonomies \in RawTaxonomyLists,
           addresses \in RawAddressLists}

ParseIdle ==
  /\ raw = EmptyDict
  /\ parsed = NoOutcome

InitParse ==
  /\ raw \in RawRecords
  /\ parsed = NoOutcome

\* client._parse_npi_result(raw)
ParseRecord ==
  /\ parsed = NoOutcome
  /\ parsed' = Returned(ParseNpiResult(raw))
  /\ UNCHANGED raw

\* ------------------------------------------------------- npi_csv_download
TEMP_DIR == "/tmp/nppes_data"
ZIP_NAME == "nppes.zip"
FINAL_CSV_NAME == "npidata.csv"
FINAL_CSV_PATH == <<TEMP_DIR, FINAL_CSV_NAME>>

\* Names an archive entry may have, each split into the text before its
\* first digit run, the length of that run, the text between, the length of
\* the second digit run, and the rest.
NameShape ==
  [n \in {"npidata_pfile_20050523-20250511.csv",
          "NPIDATA_PFILE_20250505-20250511.CSV",
          "npidata_pfile_20050523-20250511_fileheader.csv",
          "othername_pfile_20050523-20250511.csv",
          "npidata_pfile_2005052-20250511.csv"} |->
     CASE n = "npidata_pfile_20050523-20250511.csv"
            -> <<"npidata_pfile_", 8, "-", 8, ".csv">>
       [] n = "NPIDATA_PFILE_20250505-20250511.CSV"
            -> <<"NPIDATA_PFILE_", 8, "-", 8, ".CSV">>
       [] n = "npidata_pfile_20050523-20250511_fileheader.csv"
            -> <<"npidata_pfile_", 8, "-", 8, "_fileheader.csv">>
       [] n = "othername_pfile_20050523-20250511.csv"
            -> <<"othername_pfile_", 8, "-", 8, ".csv">>
       [] OTHER
            -> <<"npidata_pfile_", 7, "-", 8, ".csv">>]

EntryNames == DOMAIN NameShape

\* CSV_REGEX.match(name): ^npidata_pfile_\d{8}-\d{8}\.csv$, ignoring case.
CsvRegexMatch(name) ==
  LET shape == NameShape[name]
  IN  /\ Lower(shape[1]) = "npidata_pfile_"
      /\ shape[2] = 8
      /\ shape[3] = "-"
      /\ shape[4] = 8
      /\ Lower(shape[5]) = ".csv"

\* matched_files = [name for name in zip_ref.namelist() if CSV_REGEX.match(name)]
MatchedFiles(names) == SelectSeq(names, CsvRegexMatch)

\* Contents of TEMP_DIR.
ZipFile(complete) == [kind |-> "zip", complete |-> complete]
CsvFile(origin, rows) == [kind |-> "csv", origin |-> origin, rows |-> rows]
OtherFile == [kind |-> "other"]
Directory == [kind |-> "dir"]

Put(dir, name, content) ==
  [n \in DOMAIN dir \cup {name} |-> IF n = name THEN content ELSE dir[n]]

Remove(dir, name) == [n \in DOMAIN dir \ {name} |-> dir[n]]

\* zip_ref.extract(target_file, TEMP_DIR); then FINAL_CSV_PATH, if there, is
\* removed and the extracted file renamed to it.
ExtractAndMoveFiles(dir, target, rows) ==
  Put(Remove(Put(dir, target, CsvFile(target, rows)), target),
      FINAL_CSV_NAME, CsvFile(target, rows))

\* Only plain files removed, sub-directories left in place.
CleanedUp_KeepsDirectories(dir) ==
  [n \in {m \in DOMAIN dir : <<TEMP_DIR, m>> = FINAL_CSV_PATH
                               \/ dir[m].kind = "dir"} |-> dir[n]]

\* _cleanup_temp_directory: everything but FINAL_CSV_PATH is removed.
CleanedUp(dir) ==
  [n \in {m \in DOMAIN dir : <<TEMP_DIR, m>> = FINAL_CSV_PATH} |-> dir[n]]

\* ------------------------------------------------------------- CSV columns
TAXONOMY_COLS ==
  <<"Healthcare Provider Taxonomy Code_1", "Healthcare Provider Taxonomy Code_2",
    "Healthcare Provider Taxonomy Code_3", "Healthcare Provider Taxonomy Code_4",
    "Healthcare Provider Taxonomy Code_5", "Healthcare Provider Taxonomy Code_6",
    "Healthcare Provider Taxonomy Code_7", "Healthcare Provider Taxonomy Code_8",
    "Healthcare Provider Taxonomy Code_9", "Healthcare Provider Taxonomy Code_10",
    "Healthcare Provider Taxonomy Code_11", "Healthcare Provider Taxonomy Code_12",
    "Healthcare Provider Taxonomy Code_13", "Healthcare Provider Taxonomy Code_14",
    "Healthcare Provider Taxonomy Code_15">>

TARGET_CODES == {PyStr(<<"324500000X">>), PyStr(<<"3245S0500X">>)}

\* max_lengths of truncate_columns, keyed by the column name it looks up.
MaxLengths ==
  [col \in {"npi_number", "city", "state", "postal_code", "phone",
            "taxonomy_code"} |-> IF col = "npi_number" THEN 10 ELSE 255]

\* x[:max_len] if isinstance(x, str) else x
Truncated(x, max_len) ==
  IF x.type = "str"
    THEN PyStr(SubSeq(x.value, 1, Min(max_len, Len(x.value))))
    ELSE x

\* truncate_columns(df) on one row: a column is cut when max_lengths names it
\* and the DataFrame has a column of that name.
TruncateColumns(row) ==
  [col \in DOMAIN row |->
     IF col \in DOMAIN MaxLengths
       THEN Truncated(row[col], MaxLengths[col])
       ELSE row[col]]

\* row.get(col) and row.get(col, default)
RowGet(row, col, default) == IF col \in DOMAIN row THEN row[col] ELSE default

RECURSIVE Join(_, _)
Join(parts, sep) ==
  IF parts = <<>> THEN <<>>
  ELSE IF Len(parts) = 1 THEN Head(parts)
  ELSE Head(parts) \o sep \o Join(Tail(parts), sep)

\* The authorized official of a row: first, middle and last name stripped,
\* empty and "nan" parts left out, joined by single spaces; None when the
\* first and last names are both falsy or nothing is left.
CsvOfficial(row) ==
  LET first_name == RowGet(row, "Authorized Official First Name", EmptyStr)
      last_name == RowGet(row, "Authorized Official Last Name", EmptyStr)
      middle_name == RowGet(row, "Authorized Official Middle Name", EmptyStr)
      parts == <<Strip(Text(first_name)), Strip(Text(middle_name)),
                 Strip(Text(last_name))>>
      kept == SelectSeq(parts, LAMBDA q : q # <<>> /\ q # <<"n", "a", "n">>)
      official == IF IsTruthy(first_name) \/ IsTruthy(last_name)
                    THEN PyStr(Join(kept, <<" ">>))
                    ELSE PyNone
  IN  IF IsTruthy(official) THEN official ELSE PyNone

\* The provider dictionary without the attributes that have no column of
\* their own in CSV_TO_MODEL.
CsvProvider_MappedColumnsOnly(row) ==
  [npi_number |-> Str(RowGet(row, "NPI", PyNone)),
   organization_name |->
     RowGet(row, "Provider Organization Name (Legal Business Name)", PyNone),
   address |-> RowGet(row, "Provider First Line Business Mailing Address", PyNone),
   city |-> RowGet(row, "Provider Business Mailing Address City Name", PyNone),
   state |-> RowGet(row, "Provider Business Mailing Address State Name", PyNone),
   postal_code |->
     RowGet(row, "Provider Business Mailing Address Postal Code", PyNone),
   phone |->
     RowGet(row, "Provider Business Mailing Address Telephone Number", PyNone),
   taxonomy_code |-> RowGet(row, "Healthcare Provider Taxonomy Code_1", PyNone),
   taxonomy_desc |-> RowGet(row, "Healthcare Provider Taxonomy Group_1", PyNone),
   last_updated |-> RowGet(row, "Last Update Date", PyNone)]

\* The provider dictionary with the code that made the filter keep the row:
\* the first target code among the row's taxonomy columns, column 1 if none.
CsvProvider_MatchedCode(row) ==
  LET hits == {i \in 1..Len(TAXONOMY_COLS) :
                 /\ TAXONOMY_COLS[i] \in DOMAIN row
                 /\ row[TAXONOMY_COLS[i]].type = "str"
                 /\ row[TAXONOMY_COLS[i]].value
                      \in {<<"324500000X">>, <<"3245S0500X">>}}
      col == IF hits = {} THEN TAXONOMY_COLS[1]
             ELSE TAXONOMY_COLS[CHOOSE i \in hits : \A j \in hits : i <= j]
      mapped == CsvProvider_MappedColumnsOnly(row)
  IN  [k \in DOMAIN mapped \cup {"authorized_official"} |->
         CASE k = "taxonomy_code" -> RowGet(row, col, PyNone)
           [] k = "authorized_official" -> CsvOfficial(row)
           [] OTHER -> mapped[k]]

\* The provider dictionary built from one row of the DataFrame.
CsvProvider(row) ==
  [npi_number |-> Str(RowGet(row, "NPI", PyNone)),
   organization_name |->
     RowGet(row, "Provider Organization Name (Legal Business Name)", PyNone),
   address |-> RowGet(row, "Provider First Line Business Mailing Address", PyNone),
   city |-> RowGet(row, "Provider Business Mailing Address City Name", PyNone),
   state |-> RowGet(row, "Provider Business Mailing Address State Name", PyNone),
   postal_code |->
     RowGet(row, "Provider Business Mailing Address Postal Code", PyNone),
   phone |->
     RowGet(row, "Provider Business Mailing Address Telephone Number", PyNone),
   taxonomy_code |-> RowGet(row, "Healthcare Provider Taxonomy Code_1", PyNone),
   taxonomy_desc |-> RowGet(row, "Healthcare Provider Taxonomy Group_1", PyNone),
   authorized_official |-> CsvOfficial(row),
   last_updated |-> RowGet(row, "Last Update Date", PyNone)]

\* mask: some taxonomy column of the row holds a string in TARGET_CODES.
HasTargetCode(row) ==
  \E i \in 1..Len(TAXONOMY_COLS) :
    /\ TAXONOMY_COLS[i] \in DOMAIN row
    /\ row[TAXONOMY_COLS[i]].type = "str"
    /\ row[TAXONOMY_COLS[i]] \in TARGET_CODES

\* Every row kept, repeated or not.
DropDuplicates_KeepAll(rows) == rows

\* df.drop_duplicates(): the first of equal rows is kept.
RECURSIVE DropDuplicates(_)
DropDuplicates(rows) ==
  IF rows = <<>> THEN <<>>
  ELSE LET front == DropDuplicates(SubSeq(rows, 1, Len(rows) - 1))
           last == rows[Len(rows)]
       IN  IF last \in Range(front) THEN front ELSE Append(front, last)

\* _filter_and_deduplicate_sync
FilterAndDeduplicateSync(rows) == DropDuplicates(SelectSeq(rows, HasTargetCode))

\* The list parse_csv_to_providers builds from the filtered DataFrame.
Providers(frame) ==
  [i \in 1..Len(frame) |-> CsvProvider(TruncateColumns(frame[i]))]

\* ------------------------------------------------------------ rows of a file
Override(base, over) ==
  [k \in DOMAIN base |-> IF k \in DOMAIN over THEN over[k] ELSE base[k]]

NPI11 == NPI10 \o <<"1">>

\* A row with every taxonomy column empty.
(* The columns are those of the NPPES data file that the code reads. *)
BlankRow ==
  [col \in Range(TAXONOMY_COLS) \cup
           {"NPI", "Provider Organization Name (Legal Business Name)",
            "Provider First Line Business Mailing Address",
            "Provider Business Mailing Address City Name",
            "Provider Business Mailing Address State Name",
            "Provider Business Mailing Address Postal Code",
            "Provider Business Mailing Address Telephone Number",
            "Healthcare Provider Taxonomy Group_1",
            "Authorized Official First Name", "Authorized Official Middle Name",
            "Authorized Official Last Name", "Last Update Date"} |->
     CASE col = "NPI" -> PyStr(NPI10)
       [] col = "Provider Organization Name (Legal Business Name)"
            -> PyStr(<<"HOPE HOUSE">>)
       [] col = "Provider Business Mailing Address City Name"
            -> PyStr(<<"AUSTIN">>)
       [] col = "Last Update Date" -> PyStr(<<"05/11/2025">>)
       [] OTHER -> NaN]

Col1 == TAXONOMY_COLS[1]
Col15 == TAXONOMY_COLS[Len(TAXONOMY_COLS)]

\* Where, if anywhere, the row's classification codes sit.
TaxonomyChoices ==
  {[c \in {Col1} |-> PyStr(<<"324500000X">>)],
   [c \in {Col1, Col15} |->
      IF c = Col1 THEN PyStr(<<"261QR0405X">>) ELSE PyStr(<<"3245S0500X">>)],
   [c \in {Col1} |-> PyStr(<<"261QR0405X">>)],
   [c \in {} |-> NaN]}

NpiChoices == {PyStr(NPI10), PyStr(NPI11)}

NameChoices == {NaN, PyStr(<<"J">>)}

\* Rows that differ in identifier and classification codes.
RowPool ==
  {Override(Override(BlankRow, tax), [c \in {"NPI"} |-> npi]) :
     tax \in TaxonomyChoices, npi \in NpiChoices}

\* Rows that differ in the parts of the official's name and the identifier.
NamedRows ==
  {Override(BlankRow,
            [c \in {Col1, "NPI", "Authorized Official First Name",
                    "Authorized Official Middle Name",
                    "Authorized Official Last Name"} |->
               CASE c = Col1 -> PyStr(<<"324500000X">>)
                 [] c = "NPI" -> npi
                 [] c = "Authorized Official First Name" -> first
                 [] c = "Authorized Official Middle Name" -> middle
                 [] OTHER -> last]) :
     npi \in NpiChoices, first \in NameChoices, middle \in NameChoices,
     last \in NameChoices}

SeqsUpTo(S, n) == UNION {[1..k -> S] : k \in 0..n}

\* Sequences without repetition.
NamelistsUpTo(S, n) ==
  {names \in SeqsUpTo(S, n) :
     \A i, j \in 1..Len(names) : i # j => names[i] # names[j]}

EmptyDir == [n \in {} |-> OtherFile]

\* What TEMP_DIR may hold when a run starts.
EarlierStagings ==
  {EmptyDir,
   Put(EmptyDir, FINAL_CSV_NAME, CsvFile("earlier run", <<>>)),
   Put(Put(EmptyDir, "notes.txt", OtherFile), "old_extract", Directory),
   Put(Put(EmptyDir, FINAL_CSV_NAME, CsvFile("earlier run", <<>>)),
       ZIP_NAME, ZipFile(FALSE))}

\* ------------------------------------------- fetch_all_providers_from_csv
CsvIdle ==
  /\ zipEntries = <<>>
  /\ zipRows = <<>>
  /\ staging = EmptyDir
  /\ cpc = "idle"
  /\ extracted = <<>>
  /\ df = <<>>
  /\ csvPath = NoOutcome
  /\ csvResult = NoOutcome

\* Archives of every shape, holding a small file.
InitCsvArchives ==
  /\ zipEntries \in NamelistsUpTo(EntryNames, MaxEntries)
  /\ zipRows \in {<<r>> : r \in RowPool}
  /\ staging \in EarlierStagings

\* The archive as published, holding files of every shape.
InitCsvFiles ==
  /\ zipEntries = <<"npidata_pfile_20050523-20250511_fileheader.csv",
                    "npidata_pfile_20050523-20250511.csv">>
  /\ zipRows \in SeqsUpTo(RowPool, MaxRows) \cup {<<r>> : r \in NamedRows}
  /\ staging = EmptyDir

InitCsv ==
  /\ InitCsvArchives \/ InitCsvFiles
  /\ cpc = "download"
  /\ extracted = <<>>
  /\ df = <<>>
  /\ csvPath = NoOutcome
  /\ csvResult = NoOutcome

\* The exception leaves download_and_extract_csv and, through
\* fetch_all_providers_from_csv, reaches the caller.
CsvRaise(e) ==
  /\ csvResult' = Raised(e)
  /\ cpc' = "raised"

\* os.makedirs; the archive is streamed to TEMP_DIR/nppes.zip.
DownloadCompletes ==
  /\ cpc = "download"
  /\ staging' = Put(staging, ZIP_NAME, ZipFile(TRUE))
  /\ cpc' = "extract"
  /\ UNCHANGED <<zipEntries, zipRows, extracted, df, csvPath, csvResult>>

\* The request fails, at once or part-way through the stream.
DownloadFails ==
  /\ cpc = "download"
  /\ \E partWay \in BOOLEAN :
       staging' = IF partWay THEN Put(staging, ZIP_NAME, ZipFile(FALSE))
                  ELSE staging
  /\ CsvRaise("ClientError")
  /\ UNCHANGED <<zipEntries, zipRows, extracted, df, csvPath>>

\* No entry matches and the extraction goes on to the cleanup regardless.
ExtractFindsNoMatch_Ignored ==
  /\ cpc = "extract"
  /\ MatchedFiles(zipEntries) = <<>>
  /\ cpc' = "cleanup"
  /\ UNCHANGED <<zipEntries, zipRows, staging, extracted, df, csvPath, csvResult>>

\* _extract_csv_from_zip: no entry matches CSV_REGEX.
ExtractFindsNoMatch ==
  /\ cpc = "extract"
  /\ MatchedFiles(zipEntries) = <<>>
  /\ CsvRaise("FileNotFoundError")
  /\ UNCHANGED <<zipEntries, zipRows, staging, extracted, df, csvPath>>

\* _extract_csv_from_zip: target_file = matched_files[0] is extracted and
\* moved to FINAL_CSV_PATH.
ExtractAndMove ==
  /\ cpc = "extract"
  /\ MatchedFiles(zipEntries) # <<>>
  /\ LET target_file == MatchedFiles(zipEntries)[1]
     IN  /\ staging' = ExtractAndMoveFiles(staging, target_file, zipRows)
         /\ extracted' = Append(extracted, target_file)
  /\ cpc' = "cleanup"
  /\ UNCHANGED <<zipEntries, zipRows, df, csvPath, csvResult>>

\* _cleanup_temp_directory, then `return FINAL_CSV_PATH`.
CleanupAndReturnPath ==
  /\ cpc = "cleanup"
  /\ staging' = CleanedUp(staging)
  /\ csvPath' = Returned(FINAL_CSV_PATH)
  /\ cpc' = "filter"
  /\ UNCHANGED <<zipEntries, zipRows, extracted, df, csvResult>>

\* _cleanup_temp_directory: os.remove or shutil.rmtree raises on its first
\* entry; the extracted file stays at FINAL_CSV_PATH.
CleanupFails ==
  /\ cpc = "cleanup"
  /\ DOMAIN staging # {FINAL_CSV_NAME}
  /\ CsvRaise("OSError")
  /\ UNCHANGED <<zipEntries, zipRows, staging, extracted, df, csvPath>>

\* parse_csv_to_providers: filter_and_deduplicate(csv_path) on a worker thread.
FilterAndDeduplicate ==
  /\ cpc = "filter"
  /\ df' = FilterAndDeduplicateSync(staging[csvPath.value[2]].rows)
  /\ cpc' = "convert"
  /\ UNCHANGED <<zipEntries, zipRows, staging, extracted, csvPath, csvResult>>

\* parse_csv_to_providers: [] for an empty DataFrame, else the rows are
\* truncated and converted; fetch_all_providers_from_csv returns the list.
ConvertRows ==
  /\ cpc = "convert"
  /\ csvResult' = Returned(PyList(IF df = <<>> THEN <<>> ELSE Providers(df)))
  /\ cpc' = "done"
  /\ UNCHANGED <<zipEntries, zipRows, staging, extracted, df, csvPath>>

\* ---------------------------------------------------------------- EventStore
\* The calls of add_event, one for each event RehabRunHooks._log_event builds,
\* and the one call of list_events.
Adders == 1..MaxAdders
Lister == 0

\* The lock taken whether or not it is held.
LockFree_Always(held) == TRUE

\* asyncio.Lock.acquire returns at once when the lock is not held, and waits
\* otherwise.
LockFree(held) == ~held

\* events[-limit:] of Python: the last `limit` elements, and the whole list
\* for a limit of zero.
LastN(s, n) ==
  IF n = 0 \/ n >= Len(s) THEN s ELSE SubSeq(s, Len(s) - n + 1, Len(s))

Limits == {0, 1, 2, 100}

\* EventStore(): no events, the lock free, _next_id = 1; every AgentEvent is
\* built with id=0.
EventsIdle ==
  /\ events = <<>>
  /\ locked = FALSE
  /\ next_id = 1
  /\ eventId = [t \in Adders |-> 0]
  /\ tpc = [t \in Adders \cup {Lister} |-> "idle"]
  /\ snapshot = <<>>
  /\ list_limit = 100
  /\ listed = NoOutcome

InitEvents ==
  /\ events = <<>>
  /\ locked = FALSE
  /\ next_id = 1
  /\ eventId = [t \in Adders |-> 0]
  /\ tpc = [t \in Adders \cup {Lister} |-> "acquire"]
  /\ snapshot = <<>>
  /\ list_limit \in Limits
  /\ listed = NoOutcome

\* The body of add_event is taken statement by statement; on one event loop
\* it runs without a suspension point, which is one of the orders allowed here.
\* async with self._lock
AddAcquire ==
  \E t \in Adders :
    /\ tpc[t] = "acquire"
    /\ LockFree(locked)
    /\ locked' = TRUE
    /\ tpc' = [tpc EXCEPT ![t] = "assign"]
    /\ UNCHANGED <<events, next_id, eventId, snapshot, list_limit, listed>>

\* event.id = self._next_id
AddAssignId ==
  \E t \in Adders :
    /\ tpc[t] = "assign"
    /\ eventId' = [eventId EXCEPT ![t] = next_id]
    /\ tpc' = [tpc EXCEPT ![t] = "increment"]
    /\ UNCHANGED <<events, locked, next_id, snapshot, list_limit, listed>>

\* self._next_id += 1
AddIncrement ==
  \E t \in Adders :
    /\ tpc[t] = "increment"
    /\ next_id' = next_id + 1
    /\ tpc' = [tpc EXCEPT ![t] = "append"]
    /\ UNCHANGED <<events, locked, eventId, snapshot, list_limit, listed>>

\* self._events.append(event)
AddAppend ==
  \E t \in Adders :
    /\ tpc[t] = "append"
    /\ events' = Append(events, t)
    /\ tpc' = [tpc EXCEPT ![t] = "release"]
    /\ UNCHANGED <<locked, next_id, eventId, snapshot, list_limit, listed>>

\* The async with block is left: the lock is released.
AddRelease ==
  \E t \in Adders :
    /\ tpc[t] = "release"
    /\ locked' = FALSE
    /\ tpc' = [tpc EXCEPT ![t] = "done"]
    /\ UNCHANGED <<events, next_id, eventId, snapshot, list_limit, listed>>

\* list_events: async with self._lock
ListAcquire ==
  /\ tpc[Lister] = "acquire"
  /\ LockFree(locked)
  /\ locked' = TRUE
  /\ tpc' = [tpc EXCEPT ![Lister] = "copy"]
  /\ UNCHANGED <<events, next_id, eventId, snapshot, list_limit, listed>>

\* events = list(self._events)
ListCopy ==
  /\ tpc[Lister] = "copy"
  /\ snapshot' = events
  /\ tpc' = [tpc EXCEPT ![Lister] = "release"]
  /\ UNCHANGED <<events, locked, next_id, eventId, list_limit, listed>>

ListRelease ==
  /\ tpc[Lister] = "release"
  /\ locked' = FALSE
  /\ tpc' = [tpc EXCEPT ![Lister] = "return"]
  /\ UNCHANGED <<events, next_id, eventId, snapshot, list_limit, listed>>

\* No filter given: return events[-limit:], the events as they are now.
ListReturn ==
  /\ tpc[Lister] = "return"
  /\ listed' = Returned([i \in 1..Len(LastN(snapshot, list_limit)) |->
                           [event |-> LastN(snapshot, list_limit)[i],
                            id |-> eventId[LastN(snapshot, list_limit)[i]]]])
  /\ tpc' = [tpc EXCEPT ![Lister] = "done"]
  /\ UNCHANGED <<events, locked, next_id, eventId, snapshot, list_limit>>

\* ------------------------------------------------------------ specification
vars == <<runVars, batchVars, apiVars, pureVars, csvVars, eventVars>>

RunIdleAll ==
  /\ entry = "none"
  /\ argv = <<>>
  /\ method = "api"
  /\ pc = "idle"
  /\ batchCalls = 0
  /\ chunk_size = DEFAULT_CHUNK_SIZE
  /\ RunIdle /\ BatchIdle

\* The run: main, ingest_npi_providers, fetch_all_providers, batch_create_rehabs.
Init ==
  /\ InitMain \/ InitIngest \/ InitCoordinator \/ InitBatch
  /\ ApiIdle /\ ParseIdle /\ CsvIdle /\ BackoffIdle /\ EventsIdle

Next ==
  \/ MainAcceptArgs /\ UNCHANGED <<eventVars, apiVars, pureVars, csvVars>>
  \/ MainRejectArgs /\ UNCHANGED <<eventVars, apiVars, pureVars, csvVars>>
  \/ MainExit /\ UNCHANGED <<eventVars, apiVars, pureVars, csvVars>>
  \/ IngestCallsFetch /\ UNCHANGED <<eventVars, apiVars, pureVars, csvVars>>
  \/ CoordinatorDelegatesApi /\ UNCHANGED <<eventVars, apiVars, pureVars, csvVars>>
  \/ CoordinatorDelegatesCsv /\ UNCHANGED <<eventVars, apiVars, pureVars, csvVars>>
  \/ CoordinatorFallsThrough /\ UNCHANGED <<eventVars, apiVars, pureVars, csvVars>>
  \/ PathReturns /\ UNCHANGED <<eventVars, apiVars, pureVars, csvVars>>
  \/ PathRaises /\ UNCHANGED <<eventVars, apiVars, pureVars, csvVars>>
  \/ IngestFetchRaised /\ UNCHANGED <<eventVars, apiVars, pureVars, csvVars>>
  \/ IngestNoProviders /\ UNCHANGED <<eventVars, apiVars, pureVars, csvVars>>
  \/ IngestConvertAndSubmit /\ UNCHANGED <<eventVars, apiVars, pureVars, csvVars>>
  \/ IngestReturn /\ UNCHANGED <<eventVars, apiVars, pureVars, csvVars>>
  \/ IngestBatchRaised /\ UNCHANGED <<eventVars, apiVars, pureVars, csvVars>>
  \/ ChunkInterrupted /\ UNCHANGED <<eventVars, apiVars, pureVars, csvVars>>
  \/ ChunkSucceeds /\ UNCHANGED <<eventVars, apiVars, pureVars, csvVars>>
  \/ ChunkCallRaises /\ UNCHANGED <<eventVars, apiVars, pureVars, csvVars>>
  \/ ChunkCountRaises /\ UNCHANGED <<eventVars, apiVars, pureVars, csvVars>>
  \/ BatchRangeRaises /\ UNCHANGED <<eventVars, apiVars, pureVars, csvVars>>
  \/ BatchReturn /\ UNCHANGED <<eventVars, apiVars, pureVars, csvVars>>

Spec == Init /\ [][Next]_vars

\* The live-API fetch loop on its own.
NextApi ==
  \/ BeginClassification /\ UNCHANGED <<eventVars, runVars, batchVars, pureVars, csvVars>>
  \/ BeginCooldown /\ UNCHANGED <<eventVars, runVars, batchVars, pureVars, csvVars>>
  \/ EndCooldown /\ UNCHANGED <<eventVars, runVars, batchVars, pureVars, csvVars>>
  \/ RequestPage /\ UNCHANGED <<eventVars, runVars, batchVars, pureVars, csvVars>>
  \/ AttemptReturnsPage /\ UNCHANGED <<eventVars, runVars, batchVars, pureVars, csvVars>>
  \/ AttemptRateLimited /\ UNCHANGED <<eventVars, runVars, batchVars, pureVars, csvVars>>
  \/ AttemptFails /\ UNCHANGED <<eventVars, runVars, batchVars, pureVars, csvVars>>
  \/ RateLimitSleepEnds /\ UNCHANGED <<eventVars, runVars, batchVars, pureVars, csvVars>>
  \/ BackoffSleepEnds /\ UNCHANGED <<eventVars, runVars, batchVars, pureVars, csvVars>>
  \/ EmptyPageEndsClassification /\ UNCHANGED <<eventVars, runVars, batchVars, pureVars, csvVars>>
  \/ CollectPage /\ UNCHANGED <<eventVars, runVars, batchVars, pureVars, csvVars>>
  \/ RateLimitDelayEnds /\ UNCHANGED <<eventVars, runVars, batchVars, pureVars, csvVars>>
  \/ ApiReturn /\ UNCHANGED <<eventVars, runVars, batchVars, pureVars, csvVars>>

InitFetchLoop ==
  InitApi /\ RunIdleAll /\ ParseIdle /\ CsvIdle /\ BackoffIdle /\ EventsIdle

SpecApi == InitFetchLoop /\ [][NextApi]_vars

\* The fetch loop where every request and every sleep returns: a step that
\* can be taken is taken.
SpecApiFair == InitFetchLoop /\ [][NextApi]_vars /\ WF_vars(NextApi)

\* The live-API record normalizer on its own.
NextParse ==
  \/ ParseRecord /\ UNCHANGED <<eventVars, runVars, batchVars, apiVars, csvVars, backoffVars>>

InitNormalizer ==
  InitParse /\ RunIdleAll /\ ApiIdle /\ CsvIdle /\ BackoffIdle /\ EventsIdle

SpecParse == InitNormalizer /\ [][NextParse]_vars

\* The bulk path on its own.
NextCsv ==
  \/ DownloadCompletes /\ UNCHANGED <<eventVars, runVars, batchVars, apiVars, pureVars>>
  \/ DownloadFails /\ UNCHANGED <<eventVars, runVars, batchVars, apiVars, pureVars>>
  \/ ExtractFindsNoMatch /\ UNCHANGED <<eventVars, runVars, batchVars, apiVars, pureVars>>
  \/ ExtractAndMove /\ UNCHANGED <<eventVars, runVars, batchVars, apiVars, pureVars>>
  \/ CleanupAndReturnPath /\ UNCHANGED <<eventVars, runVars, batchVars, apiVars, pureVars>>
  \/ CleanupFails /\ UNCHANGED <<eventVars, runVars, batchVars, apiVars, pureVars>>
  \/ FilterAndDeduplicate /\ UNCHANGED <<eventVars, runVars, batchVars, apiVars, pureVars>>
  \/ ConvertRows /\ UNCHANGED <<eventVars, runVars, batchVars, apiVars, pureVars>>

InitBulkPath ==
  InitCsv /\ RunIdleAll /\ ApiIdle /\ ParseIdle /\ BackoffIdle /\ EventsIdle

SpecCsv == InitBulkPath /\ [][NextCsv]_vars

\* Both normalizers, each run on its own inputs.
NextNormalizers ==
  \/ /\ cpc = "idle"
     /\ ParseRecord
     /\ UNCHANGED <<eventVars, runVars, batchVars, apiVars, csvVars, backoffVars>>
  \/ DownloadCompletes /\ UNCHANGED <<eventVars, runVars, batchVars, apiVars, pureVars>>
  \/ DownloadFails /\ UNCHANGED <<eventVars, runVars, batchVars, apiVars, pureVars>>
  \/ ExtractFindsNoMatch /\ UNCHANGED <<eventVars, runVars, batchVars, apiVars, pureVars>>
  \/ ExtractAndMove /\ UNCHANGED <<eventVars, runVars, batchVars, apiVars, pureVars>>
  \/ CleanupAndReturnPath /\ UNCHANGED <<eventVars, runVars, batchVars, apiVars, pureVars>>
  \/ CleanupFails /\ UNCHANGED <<eventVars, runVars, batchVars, apiVars, pureVars>>
  \/ FilterAndDeduplicate /\ UNCHANGED <<eventVars, runVars, batchVars, apiVars, pureVars>>
  \/ ConvertRows /\ UNCHANGED <<eventVars, runVars, batchVars, apiVars, pureVars>>

InitNormalizers ==
  /\ (InitParse /\ CsvIdle) \/ (InitCsv /\ ParseIdle)
  /\ RunIdleAll /\ ApiIdle /\ BackoffIdle /\ EventsIdle

SpecNormalizers == InitNormalizers /\ [][NextNormalizers]_vars

\* The backoff formula on its own.
NextBackoff ==
  \/ CalculateBackoff /\ UNCHANGED <<eventVars, runVars, batchVars, apiVars, parseVars, csvVars>>

InitBackoffAlone ==
  InitBackoff /\ RunIdleAll /\ ApiIdle /\ ParseIdle /\ CsvIdle /\ EventsIdle

SpecBackoff == InitBackoffAlone /\ [][NextBackoff]_vars

\* The event store under concurrent add_event calls and one list_events call.
NextEvents ==
  \/ AddAcquire /\ UNCHANGED <<runVars, batchVars, apiVars, pureVars, csvVars>>
  \/ AddAssignId /\ UNCHANGED <<runVars, batchVars, apiVars, pureVars, csvVars>>
  \/ AddIncrement /\ UNCHANGED <<runVars, batchVars, apiVars, pureVars, csvVars>>
  \/ AddAppend /\ UNCHANGED <<runVars, batchVars, apiVars, pureVars, csvVars>>
  \/ AddRelease /\ UNCHANGED <<runVars, batchVars, apiVars, pureVars, csvVars>>
  \/ ListAcquire /\ UNCHANGED <<runVars, batchVars, apiVars, pureVars, csvVars>>
  \/ ListCopy /\ UNCHANGED <<runVars, batchVars, apiVars, pureVars, csvVars>>
  \/ ListRelease /\ UNCHANGED <<runVars, batchVars, apiVars, pureVars, csvVars>>
  \/ ListReturn /\ UNCHANGED <<runVars, batchVars, apiVars, pureVars, csvVars>>

InitEventStore ==
  InitEvents /\ RunIdleAll /\ ApiIdle /\ ParseIdle /\ CsvIdle /\ BackoffIdle

SpecEvents == InitEventStore /\ [][NextEvents]_vars

\* ------------------------------------------------- claims on the run (Spec)
\* Chunks whose try body ended in the except branch, and those that did not.
ErroredChunks == {i \in 1..Len(chunkLog) : chunkLog[i].outcome # "ok"}
CleanChunks == {i \in 1..Len(chunkLog) : chunkLog[i].outcome = "ok"}

\* Chunk numbers that have an entry in responses.
AnsweredChunks == {responses[j].chunk : j \in 1..Len(responses)}

RECURSIVE CreatedSum(_)
CreatedSum(rs) ==
  IF rs = <<>> THEN 0
  ELSE (IF "created" \in DOMAIN Head(rs) THEN Head(rs).created ELSE 0)
       + CreatedSum(Tail(rs))

CoordinatorEnded == pc = "fetch_done" /\ entry = "coordinator"

\* C1: for a mode string other than "api" and "csv", fetch_all_providers ends
\* by raising ValueError, has called neither acquisition path, and returns no
\* value.
C1_UnknownModeRaisesValueError ==
  (CoordinatorEnded /\ method \notin {"api", "csv"}) =>
    /\ fetched = Raised("ValueError")
    /\ apiCalls = 0
    /\ csvCalls = 0

\* C2: in the result of batch_create_rehabs, total_errors is the number of
\* chunks that raised, responses holds exactly one entry per chunk that did
\* not raise, and total_successes is the sum of the created-counts of exactly
\* those chunks.
C2_ResultCountsPerChunk ==
  batchResult.kind = "returned" =>
    /\ batchResult.value.total_errors = Cardinality(ErroredChunks)
    /\ Len(batchResult.value.responses) = Cardinality(CleanChunks)
    /\ {batchResult.value.responses[j].chunk :
          j \in 1..Len(batchResult.value.responses)} = CleanChunks
    /\ batchResult.value.total_successes
         = CreatedSum(batchResult.value.responses)

\* C3: at every point of batch_create_rehabs every processed chunk has
\* contributed either to responses/total_successes or to total_errors, never
\* to both: the entries of responses and the errors counted add up to the
\* chunks processed, and no errored chunk has an entry in responses.
C3_ChunkSuccessOrErrorNeverBoth ==
  /\ Len(responses) + total_errors = Len(chunkLog)
  /\ AnsweredChunks \cap ErroredChunks = {}

RECURSIVE Submitted(_)
Submitted(log) ==
  IF log = <<>> THEN <<>> ELSE Head(log).records \o Submitted(Tail(log))

\* batch_create_rehabs has gone through its whole loop.
BatchLoopDone == batchResult.kind = "returned"

\* C14: with chunk_size >= 1 the chunks handed to create_many_rehabs are
\* data[0:c], data[c:2c], ... in that order, each of exactly chunk_size
\* records but for a shorter last one, and together they are the input list,
\* every record once, whether or not earlier chunks raised.
C14_ChunksPartitionInput ==
  (chunk_size >= 1 /\ batchCalls > 0) =>
    /\ \A i \in 1..Len(chunkLog) :
         /\ chunkLog[i].records
              = SubSeq(data, (i - 1) * chunk_size + 1,
                       Min(i * chunk_size, Len(data)))
         /\ Len(chunkLog[i].records) >= 1
         /\ i * chunk_size < Len(data) => Len(chunkLog[i].records) = chunk_size
    /\ batchResult.kind # "raised" =>
         /\ Submitted(chunkLog) = SubSeq(data, 1, Min(start, Len(data)))
         /\ start = Len(chunkLog) * chunk_size
    /\ BatchLoopDone =>
         /\ Submitted(chunkLog) = data
         /\ Len(chunkLog) = (Len(data) + chunk_size - 1) \div chunk_size

\* C14 witness: five records went out in chunks of two, two and one, the
\* first of which raised.
C14_Witness ==
  /\ BatchLoopDone
  /\ Len(data) = 5
  /\ chunk_size = 2
  /\ Len(chunkLog) = 3
  /\ chunkLog[1].outcome = "call_raised"
  /\ Len(chunkLog[3].records) = 1

\* C15: no exception leaves batch_create_rehabs, whatever the input list,
\* the chunk size and the downstream behaviour; a chunk whose submission
\* raises adds one to total_errors and the chunks after it are still
\* submitted, each once.
C15_NoExceptionLeavesBatch ==
  /\ batchResult.kind # "raised"
  /\ total_errors = Cardinality({i \in 1..Len(chunkLog) :
                                   chunkLog[i].outcome # "ok"})
  /\ batchResult.kind = "returned" => Submitted(chunkLog) = data

\* main has exited after ingest_npi_providers ended.
ExitedAfterIngestion ==
  entry = "main" /\ pc = "exited" /\ ingestResult # NoOutcome

\* C16: main exits with status 0 exactly when ingestion returned a result
\* whose total_errors is 0; with 1 when total_errors > 0 or ingestion raised
\* an exception; with 130 when it was interrupted from the keyboard.
C16_ExitStatusReflectsErrors ==
  /\ (entry = "main" /\ pc = "exited") =>
       (exitStatus = Exited(0)
          <=> (ingestResult.kind = "returned"
               /\ ingestResult.value.total_errors = 0))
  /\ ExitedAfterIngestion =>
       /\ (ingestResult.kind = "returned"
            /\ ingestResult.value.total_errors > 0) => exitStatus = Exited(1)
       /\ (ingestResult.kind = "raised"
            /\ ingestResult.error # "KeyboardInterrupt") => exitStatus = Exited(1)
       /\ (ingestResult.kind = "raised"
            /\ ingestResult.error = "KeyboardInterrupt") => exitStatus = Exited(130)
  /\ (entry = "main" /\ pc # "exited") => exitStatus = NoOutcome

\* C16 witness: ingestion returned a result with one errored chunk and main
\* exited with status 1.
C16_Witness ==
  /\ ExitedAfterIngestion
  /\ ingestResult.kind = "returned"
  /\ ingestResult.value.total_errors = 1
  /\ exitStatus = Exited(1)

\* The selector given on the command line is neither "api" nor "csv" in any
\* letter case.
SelectorUnrecognised ==
  Len(argv) > 0 /\ argv[1] \notin {"api", "csv", "API", "CSV"}

\* C17: with an unrecognised selector main exits with a non-zero status and
\* never calls ingest_npi_providers, so neither a fetch nor a submission
\* starts; a selector is compared without regard to case, and with none
\* given the mode is "api".
C17_UnrecognisedSelectorRejected ==
  entry = "main" =>
    /\ SelectorUnrecognised =>
         /\ pc \in {"main", "exited"}
         /\ pc = "exited" => exitStatus.kind = "exited" /\ exitStatus.status # 0
         /\ apiCalls = 0 /\ csvCalls = 0 /\ batchCalls = 0
         /\ fetched = NoOutcome /\ chunkLog = <<>> /\ ingestResult = NoOutcome
    /\ (~SelectorUnrecognised /\ pc = "exited") => ingestResult # NoOutcome
    /\ (argv = <<>> /\ pc # "main") => method = "api"
    /\ (argv \in {<<"csv">>, <<"CSV">>} /\ pc # "main") => method = "csv"
    /\ (argv \in {<<"api">>, <<"API">>} /\ pc # "main") => method = "api"

\* C17 witness: main has exited on the selector "invalid".
C17_Witness ==
  /\ entry = "main"
  /\ argv = <<"invalid">>
  /\ pc = "exited"
  /\ exitStatus = Exited(1)
  /\ ingestResult = NoOutcome

\* s is t with some elements left out, the others in t's order (both lists
\* are without repetition).
IsSubsequence(s, t) ==
  /\ Range(s) \subseteq Range(t)
  /\ \A i, j \in 1..Len(s) :
       i < j => \E k, l \in 1..Len(t) : k < l /\ t[k] = s[i] /\ t[l] = s[j]

\* ingest_npi_providers went through its conversion loop.
Converted == entry \in {"main", "ingest"} /\ batchCalls > 0

\* C18: in ingest_npi_providers a record whose conversion raises is skipped
\* and counted, the records that convert go to batch submission in their
\* original relative order, and the value returned to the caller carries the
\* number of conversion failures.
C18_ConversionFailuresSurfaced ==
  Converted =>
    /\ IsSubsequence(data, providers)
    /\ conversion_errors = Len(providers) - Len(data)
    /\ (pc = "ingest_done" /\ ingestResult.kind = "returned"
          /\ conversion_errors > 0) =>
         /\ "conversion_errors" \in DOMAIN ingestResult.value
         /\ ingestResult.value["conversion_errors"] = conversion_errors

\* C19: a run of main in which a record failed conversion or a chunk's
\* submission raised never ends with exit status 0 and a returned result
\* whose counts show no failure.
C19_NoSilentSuccess ==
  (entry = "main" /\ pc = "exited"
     /\ (conversion_errors > 0
         \/ \E i \in 1..Len(chunkLog) : chunkLog[i].outcome # "ok")) =>
    ~(/\ exitStatus = Exited(0)
      /\ ingestResult.kind = "returned"
      /\ ingestResult.value.total_errors = 0)

\* fetch_all_providers has ended after delegating.
Delegated == fetched # NoOutcome /\ method \in {"api", "csv"}

\* C27: fetch_all_providers with mode "api" calls the live-API path exactly
\* once and the bulk path never, with mode "csv" the bulk path exactly once
\* and the live-API path never, and what it returns is the record list of
\* the path it called, as that path returned it.
C27_DispatchDelegatesOnce ==
  /\ Delegated =>
       /\ method = "api" => apiCalls = 1 /\ csvCalls = 0
       /\ method = "csv" => csvCalls = 1 /\ apiCalls = 0
       /\ fetched = pathOutcome
  /\ (pc # "main" /\ method = "api") => apiCalls <= 1 /\ csvCalls = 0
  /\ (pc # "main" /\ method = "csv") => csvCalls <= 1 /\ apiCalls = 0

\* C27 witness: in mode "csv" the bulk path's three records were handed back.
C27_Witness ==
  /\ entry = "coordinator"
  /\ method = "csv"
  /\ pc = "fetch_done"
  /\ csvCalls = 1
  /\ apiCalls = 0
  /\ pathOutcome = Returned(PyList(Records(3)))
  /\ fetched = Returned(PyList(Records(3)))

\* ingest_npi_providers has ended, under main or called directly.
IngestEnded == entry \in {"main", "ingest"} /\ pc \in {"ingest_done", "exited"}

\* C28: an exception of the fetch stage leaves ingest_npi_providers with no
\* chunk submitted, an exception of the call of batch_create_rehabs leaves
\* it too; either way ingest_npi_providers returns no result dictionary and
\* main exits with a status other than zero.
C28_StageExceptionsPropagate ==
  /\ (entry \in {"main", "ingest"} /\ fetched.kind = "raised") =>
       /\ batchCalls = 0
       /\ chunkLog = <<>>
       /\ pc \in {"fetch_done", "ingest_done", "exited"}
  /\ (IngestEnded /\ fetched.kind = "raised") => ingestResult = fetched
  /\ (IngestEnded /\ batchResult.kind = "raised") => ingestResult = batchResult
  /\ (IngestEnded /\ (fetched.kind = "raised" \/ batchResult.kind = "raised")
        /\ pc = "exited") =>
       /\ exitStatus.kind = "exited"
       /\ exitStatus.status # 0

\* C28 witness: under main the submission was interrupted on its only
\* chunk and main has exited.
C28_Witness ==
  /\ entry = "main"
  /\ pc = "exited"
  /\ fetched.kind = "returned"
  /\ Len(chunkLog) = 1
  /\ batchResult.kind = "raised"
  /\ ingestResult = batchResult
  /\ exitStatus.status # 0

\* -------------------------------------- claims on the fetch loop (SpecApi)
Classifications == 1..Len(taxonomy_descriptions)

\* The page fetches issued for classification d, in request order.
PagesOf(d) == SelectSeq(pageLog, LAMBDA e : e.desc = d)

\* The raw records collected for classification d, in list order.
RunsOf(d) == SelectSeq(all_results, LAMBDA r : r.desc = d)

\* The fetch loop has left classification d.
Finished(d) == desc_i > d /\ apc # "raised"

\* Every page fetch for d ended with the page the registry serves.
ServedCleanly(d) == \A i \in 1..Len(PagesOf(d)) : PagesOf(d)[i].how = "page"

CeilDiv(a, b) == (a + b - 1) \div b

\* The runs follow one another: the records are 1, 2, 3, ... of d, the runs
\* in the order their pages were requested.
InRequestOrder(d) ==
  /\ \A i \in 1..Len(RunsOf(d)) :
       RunsOf(d)[i].first = (i - 1) * MAX_RESULTS_PER_REQUEST + 1
  /\ \A i \in 1..Len(RunsOf(d)) :
       /\ PagesOf(d)[i].skip + 1 = RunsOf(d)[i].first
       /\ PagesOf(d)[i].count = RunsOf(d)[i].count

\* C4 as stated: for a classification the registry serves in full pages up to
\* a final short page, the fetch issues exactly ceil(total / page_size) page
\* requests, and the records appear in request order.
C4_RequestsAreCeilOfTotal ==
  \A d \in Classifications :
    (Finished(d) /\ ServedCleanly(d)) =>
      /\ Len(PagesOf(d)) = CeilDiv(serverTotal[d], MAX_RESULTS_PER_REQUEST)
      /\ InRequestOrder(d)

\* C4 amended: the fetch issues min(total div page_size + 1, MAX_REQUESTS)
\* page requests, which is ceil(total / page_size) when total is not a
\* multiple of page_size and below MAX_TOTAL_RESULTS, one more when total is
\* a multiple of page_size below MAX_TOTAL_RESULTS (the empty final page),
\* and MAX_REQUESTS from MAX_TOTAL_RESULTS on; the records collected are the
\* first min(total, MAX_TOTAL_RESULTS), in request order.
C4_RequestsUpToCeilings ==
  \A d \in Classifications :
    (Finished(d) /\ ServedCleanly(d)) =>
      LET total == serverTotal[d]
          full == total \div MAX_RESULTS_PER_REQUEST
          n == Len(PagesOf(d))
      IN  /\ n = Min(full + 1, MAX_REQUESTS)
          /\ (total % MAX_RESULTS_PER_REQUEST # 0 /\ total < MAX_TOTAL_RESULTS)
               => n = CeilDiv(total, MAX_RESULTS_PER_REQUEST)
          /\ (total % MAX_RESULTS_PER_REQUEST = 0 /\ total < MAX_TOTAL_RESULTS)
               => n = CeilDiv(total, MAX_RESULTS_PER_REQUEST) + 1
          /\ total >= MAX_TOTAL_RESULTS => n = MAX_REQUESTS
          /\ RecordCount(RunsOf(d)) = Min(total, MAX_TOTAL_RESULTS)
          /\ InRequestOrder(d)

\* C4 witness: a classification of 350 records was served in a full page
\* and a short page, two requests.
C4_Witness ==
  /\ Finished(1)
  /\ ServedCleanly(1)
  /\ serverTotal[1] = 350
  /\ Len(PagesOf(1)) = 2
  /\ RecordCount(RunsOf(1)) = 350

\* C9: a page fetch whose retries are exhausted returns the empty list
\* instead of raising; it is the last page fetch of its classification, the
\* records of the classification's earlier pages stay in the output, and the
\* classifications after it are still fetched.
C9_ExhaustionEndsOnlyThatClassification ==
  \A k \in 1..Len(pageLog) :
    pageLog[k].how = "exhausted" =>
      LET d == pageLog[k].desc
      IN  /\ pageLog[k].count = 0
          /\ apc # "raised"
          /\ \A j \in (k + 1)..Len(pageLog) : pageLog[j].desc > d
          /\ (apc # "page_returned" \/ k < Len(pageLog)) =>
               /\ desc_i > d
               /\ RecordCount(RunsOf(d))
                    = SumSeq([i \in 1..Len(PagesOf(d)) |-> PagesOf(d)[i].count])
          /\ apc = "done" =>
               /\ \A d2 \in Classifications : d2 > d => PagesOf(d2) # <<>>
               /\ apiResult = Returned(PyList(ParseAll(all_results)))
               /\ \A i \in 1..Len(PagesOf(d)) :
                    PagesOf(d)[i].count > 0 =>
                      \E r \in Range(apiResult.value.items) :
                        /\ r.desc = <<"parsed", d>>
                        /\ r.first = PagesOf(d)[i].skip + 1
                        /\ r.count = PagesOf(d)[i].count

\* C9 witness: the second page of the first classification exhausted its
\* retries; its first page is in the output and the second classification
\* was fetched with records.
C9_Witness ==
  /\ apc = "done"
  /\ Len(PagesOf(1)) = 2
  /\ PagesOf(1)[1].count = MAX_RESULTS_PER_REQUEST
  /\ PagesOf(1)[2].how = "exhausted"
  /\ RecordCount(RunsOf(1)) = MAX_RESULTS_PER_REQUEST
  /\ RecordCount(RunsOf(2)) > 0

\* C10: no exception leaves fetch_providers_by_taxonomy_description, whatever
\* the attempts end in: every call ends by returning the page of a successful
\* attempt or, after RETRY_LIMIT failed attempts, the empty list.
C10_PageFetchNeverRaises ==
  /\ apc # "raised"
  /\ apiResult.kind # "raised"
  /\ apc \in {"sleep_backoff"} => caught # "none"
  /\ retries <= RETRY_LIMIT
  /\ attempts <= RETRY_LIMIT
  /\ \A k \in 1..Len(pageLog) :
       \/ pageLog[k].how \in {"page", "no_results_key"}
       \/ pageLog[k].how = "exhausted" /\ pageLog[k].count = 0
  /\ apc = "page_returned" =>
       \/ pageLog[Len(pageLog)].how \in {"page", "no_results_key"}
       \/ /\ pageLog[Len(pageLog)].how = "exhausted"
          /\ results.count = 0
          /\ attempts = RETRY_LIMIT

\* C10 witness: a call has returned the empty list after RETRY_LIMIT failed
\* attempts.
C10_Witness ==
  /\ apc = "page_returned"
  /\ pageLog[Len(pageLog)].how = "exhausted"
  /\ results.count = 0
  /\ attempts = RETRY_LIMIT
  /\ retries = RETRY_LIMIT

\* The fetch loop is inside a classification and will request, or is
\* requesting, a page at offset skip.
Paginating ==
  apc \in {"budget_check", "cooldown", "attempt", "sleep_429", "sleep_backoff",
           "rate_delay"}

\* C12: no page is requested at an offset above MAX_SKIP and no
\* classification collects more than MAX_TOTAL_RESULTS records; once the
\* next offset would exceed MAX_SKIP or the count has reached
\* MAX_TOTAL_RESULTS the classification is left without another request.
C12_CeilingsBoundPagination ==
  /\ \A k \in 1..Len(pageLog) : pageLog[k].skip <= MAX_SKIP
  /\ total_fetched <= MAX_TOTAL_RESULTS
  /\ \A d \in Classifications : RecordCount(RunsOf(d)) <= MAX_TOTAL_RESULTS
  /\ Paginating => skip <= MAX_SKIP /\ total_fetched < MAX_TOTAL_RESULTS
  /\ \A d \in Classifications :
       (Finished(d) /\ PagesOf(d) # <<>>) =>
         LET last == PagesOf(d)[Len(PagesOf(d))]
         IN  (last.count = MAX_RESULTS_PER_REQUEST
              /\ (last.skip + MAX_RESULTS_PER_REQUEST > MAX_SKIP
                  \/ RecordCount(RunsOf(d)) >= MAX_TOTAL_RESULTS))
               => RecordCount(RunsOf(d)) = last.skip + last.count

\* C12 witness: a classification of 1300 records was left after the request
\* at offset MAX_SKIP, with MAX_TOTAL_RESULTS records collected.
C12_Witness ==
  /\ Finished(1)
  /\ serverTotal[1] = 1300
  /\ Len(PagesOf(1)) = MAX_REQUESTS
  /\ PagesOf(1)[MAX_REQUESTS].skip = MAX_SKIP
  /\ RecordCount(RunsOf(1)) = MAX_TOTAL_RESULTS

\* The position of the fetch loop in its input: classification, offset,
\* per-classification count and accumulated results.
Progress == <<desc_i, request_num, skip, total_fetched, all_results, pageLog>>

\* C13: when the elapsed time exceeds RUN_TIME_LIMIT at the check before a
\* page request, the loop sleeps WAIT_TIME, resets the baseline to the
\* current time and then requests the page of the same classification at the
\* same offset; the pause changes neither offset, count nor results, and the
\* offsets requested for a classification are 0, page_size, 2 * page_size, ...
\* with none left out or repeated.
C13_CooldownResumesInPlace ==
  /\ [][(apc = "budget_check" /\ BudgetExceeded)
          => (apc' = "cooldown" /\ Progress' = Progress
              /\ start_time' = start_time)]_vars
  /\ [][(apc = "budget_check" /\ ~BudgetExceeded) => apc' = "attempt"]_vars
  /\ [][apc = "cooldown"
          => /\ apc' = "attempt"
             /\ Progress' = Progress
             /\ now' = now + WAIT_TIME
             /\ start_time' = now'
             /\ retries' = 0]_vars
  /\ [](\A d \in Classifications : \A i \in 1..Len(PagesOf(d)) :
          PagesOf(d)[i].skip = (i - 1) * MAX_RESULTS_PER_REQUEST)

\* C13 witness: after a cooldown (the baseline was reset) the second page of
\* the first classification was requested at offset page_size and served.
C13_Witness ==
  /\ start_time > 0
  /\ start_time = now
  /\ apc = "page_returned"
  /\ desc_i = 1
  /\ Len(PagesOf(1)) = 2
  /\ PagesOf(1)[2].skip = MAX_RESULTS_PER_REQUEST
  /\ PagesOf(1)[2].count > 0

\* The page fetches that brought records, in request order.
FilledPages == SelectSeq(pageLog, LAMBDA e : e.count > 0)

\* C24: the list fetch_all_providers_from_api returns has one normalized
\* record for each raw record fetched: the classifications follow one another
\* in the order of the classification list, the pages of a classification in
\* request order, and the records of a page in the page's order.
C24_ResultInFetchOrder ==
  apc = "done" =>
    LET items == apiResult.value.items
    IN  /\ apiResult.kind = "returned"
        /\ Len(items) = Len(FilledPages)
        /\ RecordCount(items) = SumSeq([i \in 1..Len(pageLog) |-> pageLog[i].count])
        /\ \A i \in 1..Len(items) :
             /\ items[i].desc = <<"parsed", FilledPages[i].desc>>
             /\ items[i].first = FilledPages[i].skip + 1
             /\ items[i].count = FilledPages[i].count
        /\ \A i, j \in 1..Len(items) :
             i < j =>
               \/ items[i].desc[2] < items[j].desc[2]
               \/ /\ items[i].desc[2] = items[j].desc[2]
                  /\ items[i].first + items[i].count <= items[j].first
        /\ \A i, j \in 1..Len(pageLog) : i < j => pageLog[i].desc <= pageLog[j].desc

\* C24 witness: two pages of the first classification and one of the second
\* were returned as three runs of records.
C24_Witness ==
  /\ apc = "done"
  /\ Len(apiResult.value.items) = 3
  /\ apiResult.value.items[2].desc = <<"parsed", 1>>
  /\ apiResult.value.items[2].first = MAX_RESULTS_PER_REQUEST + 1
  /\ apiResult.value.items[3].desc = <<"parsed", 2>>

\* The last page fetch ended with an attempt that succeeded.
ServedByAttempt ==
  /\ apc = "page_returned"
  /\ pageLog[Len(pageLog)].how \in {"page", "no_results_key"}

\* C29: one page fetch issues at most RETRY_LIMIT requests; the attempt that
\* succeeds ends the fetch at once with its own results, no request and no
\* backoff sleep following it, so a failure on one attempt and a success on
\* the next yield the page that was served.
C29_FirstSuccessEndsPageFetch ==
  /\ [](attempts <= RETRY_LIMIT)
  /\ [](ServedByAttempt =>
          /\ attempts = retries + 1
          /\ delay = 0
          /\ pageLog[Len(pageLog)].how = "page" =>
               results = ServerPage(desc_i, MAX_RESULTS_PER_REQUEST, skip)
          /\ pageLog[Len(pageLog)].how = "no_results_key" => results.count = 0)
  /\ [][(apc = "attempt" /\ apc' = "page_returned") =>
          /\ attempts' = attempts + 1
          /\ retries' = retries
          /\ delay' = delay
          /\ pageLog'[Len(pageLog')].how \in {"page", "no_results_key"}]_vars
  /\ [][apc = "page_returned" =>
          /\ apc' \notin {"attempt", "sleep_429", "sleep_backoff"}
          /\ attempts' = attempts
          /\ delay' = delay]_vars

\* C29 witness: the first attempt failed, the second was served a full page.
C29_Witness ==
  /\ ServedByAttempt
  /\ retries = 1
  /\ attempts = 2
  /\ pageLog[Len(pageLog)].how = "page"
  /\ results.count = MAX_RESULTS_PER_REQUEST

\* C30: a 429 response is treated as the other retryable failures are: one
\* sleep of the backoff delay for the current attempt index, the attempt
\* counter raised by one, another attempt unless the ceiling is reached, and
\* nothing of the response handed back as page content.
C30_RateLimitIsRetried ==
  [][/\ (apc = "attempt" /\ apc' = "sleep_429") =>
          /\ delay' \in BackoffDelays(retries)
          /\ attempts' = attempts + 1
          /\ retries' = retries
          /\ results' = results
          /\ pageLog' = pageLog
     /\ apc = "sleep_429" =>
          /\ retries' = retries + 1
          /\ attempts' = attempts
          /\ retries + 1 < RETRY_LIMIT =>
               apc' = "attempt" /\ results' = results /\ pageLog' = pageLog
          /\ retries + 1 >= RETRY_LIMIT =>
               /\ apc' = "page_returned"
               /\ results'.count = 0
               /\ pageLog'[Len(pageLog')].how = "exhausted"
     /\ (apc = "attempt" /\ apc' = "sleep_backoff") =>
          /\ delay' \in BackoffDelays(retries)
          /\ attempts' = attempts + 1
          /\ retries' = retries + 1
          /\ results' = results
          /\ pageLog' = pageLog
     /\ apc = "sleep_backoff" =>
          /\ retries' = retries
          /\ attempts' = attempts
          /\ retries < RETRY_LIMIT =>
               apc' = "attempt" /\ results' = results /\ pageLog' = pageLog
          /\ retries >= RETRY_LIMIT =>
               /\ apc' = "page_returned"
               /\ results'.count = 0
               /\ pageLog'[Len(pageLog')].how = "exhausted"]_vars

\* C30 witness: the last attempt allowed was answered 429 and its backoff
\* sleep is under way.
C30_Witness ==
  /\ apc = "sleep_429"
  /\ attempts = RETRY_LIMIT
  /\ retries = RETRY_LIMIT - 1
  /\ delay = BackoffBase(RETRY_LIMIT - 1) * 1000

\* A page fetch of the current classification is being prepared or is under
\* way.
Requesting ==
  apc \in {"budget_check", "cooldown", "attempt", "sleep_429", "sleep_backoff"}

\* C31: between two consecutive page requests of one classification the
\* fetch loop sleeps RATE_LIMIT_DELAY exactly once, after the earlier page
\* came back filled and before the later request goes out; the first request
\* of a classification has no such sleep before it.
C31_OneRateDelayBetweenPages ==
  /\ [][/\ apc' = "rate_delay" =>
             /\ apc = "page_returned"
             /\ results.count = MAX_RESULTS_PER_REQUEST
             /\ pageLog[Len(pageLog)].how = "page"
        /\ apc' = "budget_check" =>
             \/ apc = "rate_delay" /\ desc_i' = desc_i
                  /\ request_num' = request_num + 1
             \/ apc = "next_desc" /\ request_num' = 0
        /\ apc = "rate_delay" => apc' \in {"budget_check", "next_desc"}
        /\ request_num' # request_num =>
             apc \in {"rate_delay", "next_desc"}]_vars
  /\ [](apc \notin {"idle", "next_desc", "done", "raised"} =>
          /\ Requesting => Len(PagesOf(desc_i)) = request_num
          /\ apc \in {"page_returned", "rate_delay"} =>
               Len(PagesOf(desc_i)) = request_num + 1)

\* C31 witness: the third page of the first classification is being fetched
\* after two filled pages, each followed by its sleep.
C31_Witness ==
  /\ apc = "attempt"
  /\ desc_i = 1
  /\ request_num = 2
  /\ Len(PagesOf(1)) = 2
  /\ skip = 2 * MAX_RESULTS_PER_REQUEST

\* C32: the baseline of the run-budget check is set when the fetch starts and
\* changes only when a cooldown ends; the step to the next classification
\* leaves it alone, so that the time the earlier classifications took counts
\* in the check made for the later ones.
C32_BudgetBaselineIsGlobal ==
  /\ [][/\ start_time' # start_time => apc = "cooldown" /\ start_time' = now'
        /\ apc = "next_desc" => start_time' = start_time /\ now' = now
        /\ apc' = "cooldown" =>
             apc = "budget_check" /\ now - start_time > RUN_TIME_LIMIT]_vars
  /\ [](pageLog = <<>> /\ apc \in {"next_desc", "budget_check"} =>
          start_time = 0 /\ now = 0)

\* C32 witness: the first request of the second classification is held up
\* by a cooldown for time that passed during the first classification.
C32_Witness ==
  /\ apc = "cooldown"
  /\ desc_i = 2
  /\ request_num = 0
  /\ PagesOf(2) = <<>>
  /\ start_time = 0
  /\ now > RUN_TIME_LIMIT

\* An upper bound of the HTTP requests issued so far: every page fetch that
\* has ended took no more than RETRY_LIMIT of them, the one under way has
\* issued `attempts`.
RequestsAtMost ==
  LET under_way == apc \in {"attempt", "sleep_429", "sleep_backoff"}
  IN  IF under_way THEN RETRY_LIMIT * Len(pageLog) + attempts
                   ELSE RETRY_LIMIT * Len(pageLog)

\* C33: fetch_all_providers_from_api ends whatever the registry answers, as
\* long as every request and sleep returns; it makes at most MAX_REQUESTS
\* page fetches for a classification and at most RETRY_LIMIT requests for a
\* page fetch, so at most MAX_REQUESTS * RETRY_LIMIT requests for each
\* classification.
C33_FetchTerminatesWithinCeilings ==
  /\ <>(apiResult # NoOutcome)
  /\ [](\A d \in Classifications : Len(PagesOf(d)) <= MAX_REQUESTS)
  /\ [](attempts <= RETRY_LIMIT)
  /\ [](desc_i <= Len(taxonomy_descriptions) + 1)
  /\ [](RequestsAtMost
          <= MAX_REQUESTS * RETRY_LIMIT * Len(taxonomy_descriptions))
  /\ [][/\ desc_i' >= desc_i
        /\ Len(pageLog') > Len(pageLog) => attempts' <= RETRY_LIMIT]_vars

\* C33 witness: the fetch has returned after MAX_REQUESTS page fetches for
\* each classification, the last of them given up after RETRY_LIMIT requests.
C33_Witness ==
  /\ apiResult.kind = "returned"
  /\ \A d \in Classifications : Len(PagesOf(d)) = MAX_REQUESTS
  /\ attempts = RETRY_LIMIT
  /\ pageLog[Len(pageLog)].how = "exhausted"

\* The page fetch under way is in the sleep that follows a failed attempt.
Sleeping == apc \in {"sleep_429", "sleep_backoff"}

\* delay is a backoff delay of index k: the capped doubling, in milliseconds,
\* with up to a tenth of it added.
DelayOfIndex(d, k) ==
  LET base == Min(INITIAL_RETRY_DELAY * Pow2(k), MAX_RETRY_DELAY) * 1000
  IN  d >= base /\ d <= base + base \div 10

\* C34: in a page fetch every failed attempt, the last one allowed too, is
\* followed at once by one backoff sleep: as many sleeps as failed attempts,
\* the k-th failure (counted from 0) sleeping with delay index k, and the
\* empty result handed back only when the last sleep has ended.
C34_EveryFailureSleepsOnce ==
  /\ [][/\ (apc = "attempt" /\ apc' # "page_returned") =>
             /\ Sleeping'
             /\ attempts' = attempts + 1
             /\ DelayOfIndex(delay', attempts)
        /\ Sleeping =>
             /\ ~Sleeping'
             /\ apc' = "attempt" => attempts < RETRY_LIMIT /\ retries' = attempts
             /\ apc' # "attempt" =>
                  /\ apc' = "page_returned"
                  /\ attempts = RETRY_LIMIT
                  /\ retries' = RETRY_LIMIT
                  /\ results'.count = 0
                  /\ pageLog'[Len(pageLog')].how = "exhausted"
        /\ (apc' = "page_returned" /\ apc # "page_returned"
              /\ pageLog'[Len(pageLog')].how = "exhausted") => Sleeping]_vars
  /\ [](apc = "attempt" => retries = attempts /\ delay = 0)

\* C34 witness: the last attempt allowed has failed with a timeout and its
\* sleep, of delay index RETRY_LIMIT - 1, is under way.
C34_Witness ==
  /\ apc = "sleep_backoff"
  /\ caught = "asyncio.TimeoutError"
  /\ attempts = RETRY_LIMIT
  /\ DelayOfIndex(delay, RETRY_LIMIT - 1)

\* The retry sequence of a page fetch is in progress.
Retrying == apc \in {"attempt", "sleep_429", "sleep_backoff"}

\* C35: the run budget is checked only right before a page fetch: while the
\* retry sequence of a page is in progress no cooldown begins and the
\* baseline stays, however far the elapsed time has passed RUN_TIME_LIMIT,
\* and a page fetch is preceded by one cooldown at most.
C35_BudgetCheckedOnlyBeforePage ==
  [][/\ Retrying =>
          /\ apc' \in {"attempt", "sleep_429", "sleep_backoff",
                        "page_returned", "raised"}
          /\ start_time' = start_time
     /\ apc' = "cooldown" => apc = "budget_check"
     /\ apc' = "budget_check" => apc \in {"next_desc", "rate_delay"}
     /\ apc = "budget_check" =>
          /\ apc' \in {"cooldown", "attempt"}
          /\ apc' = "attempt" => retries' = 0 /\ attempts' = 0
     /\ apc = "cooldown" =>
          /\ apc' = "attempt"
          /\ retries' = 0 /\ attempts' = 0]_vars

\* C35 witness: the first page fetch is at its third attempt, the elapsed
\* time went past RUN_TIME_LIMIT during its retries, and no cooldown was
\* taken.
C35_Witness ==
  /\ apc = "attempt"
  /\ pageLog = <<>>
  /\ retries = 2
  /\ attempts = 2
  /\ start_time = 0
  /\ now - start_time > RUN_TIME_LIMIT

\* The registry taken to list the same providers under every classification:
\* the record at position i of any classification is provider i.  How often
\* provider i occurs in a list of runs.
Occurrences(runs, i) ==
  Cardinality({k \in 1..Len(runs) :
                 runs[k].first <= i /\ i < runs[k].first + runs[k].count})

\* The pages fetched, as runs of records.
PagesFetched ==
  [k \in 1..Len(pageLog) |->
     Run(pageLog[k].desc, pageLog[k].skip + 1, pageLog[k].count)]

\* The first provider of every page the registry can serve.
PageHeads == {k * MAX_RESULTS_PER_REQUEST + 1 : k \in 0..(MAX_REQUESTS - 1)}

\* C36: the live-API path removes no duplicates: the list it returns is as
\* long as all the pages fetched taken together, and a provider served
\* under two classifications, or on two pages, is in the list as often as it
\* was served.
C36_ApiPathKeepsDuplicates ==
  (apc = "done" /\ apiResult.kind = "returned") =>
    /\ RecordCount(apiResult.value.items) = RecordCount(PagesFetched)
    /\ \A i \in PageHeads :
         Occurrences(apiResult.value.items, i) = Occurrences(PagesFetched, i)
    /\ \A d \in Classifications :
         RecordCount(SelectSeq(apiResult.value.items,
                               LAMBDA r : r.desc = <<"parsed", d>>))
           = RecordCount(PagesOf(d))

\* C36 witness: both classifications served the same 350 providers and the
\* list returned holds each of them twice.
C36_Witness ==
  /\ apc = "done"
  /\ apiResult.kind = "returned"
  /\ serverTotal = [d \in Classifications |-> 350]
  /\ RecordCount(apiResult.value.items) = 700
  /\ Occurrences(apiResult.value.items, 1) = 2
  /\ Occurrences(apiResult.value.items, MAX_RESULTS_PER_REQUEST + 1) = 2

\* -------------------------------- claims on the normalizer (SpecParse)
HasNoNumber(result) == Get(result, "number", PyNone) = PyNone

\* C5: for a raw record without an NPI identifier ("number" absent or null)
\* _parse_npi_result raises and returns no record.
C5_MissingNumberRaises ==
  (parsed # NoOutcome /\ HasNoNumber(raw)) => parsed.kind = "raised"

\* ------------------------------------------ claims on the bulk path (SpecCsv)
BulkReturned == cpc = "done" /\ csvResult.kind = "returned"

\* C6: every record the bulk path returns has an npi_number of at most 10
\* characters; a longer NPI value of the source row is cut to its first 10.
C6_NpiNumberAtMostTenCharacters ==
  BulkReturned =>
    \A i \in 1..Len(csvResult.value.items) :
      /\ Len(csvResult.value.items[i].npi_number.value) <= 10
      /\ csvResult.value.items[i].npi_number.value
           = SubSeq(df[i]["NPI"].value, 1, Min(10, Len(df[i]["NPI"].value)))

\* C7: when no entry, or more than one entry, of the archive matches the
\* npidata_pfile pattern, extraction fails and nothing is extracted or moved
\* to the canonical path; it succeeds only when exactly one entry matches.
C7_ExtractionNeedsExactlyOneMatch ==
  cpc \notin {"download", "extract"} =>
    /\ Len(MatchedFiles(zipEntries)) # 1 =>
         /\ csvResult.kind = "raised"
         /\ extracted = <<>>
    /\ extracted # <<>> => Len(MatchedFiles(zipEntries)) = 1

\* --------------------------------- claims on the backoff formula (SpecBackoff)
\* C11 as stated: the delay for retry attempt n lies in
\* [base * 2^n, base * 2^n * 1.1] and never exceeds max_delay * 1.1.
C11_DelayWithinDoublingInterval ==
  backoff.kind = "returned" =>
    /\ backoff.value >= INITIAL_RETRY_DELAY * Pow2(retryCount) * 1000
    /\ backoff.value <= INITIAL_RETRY_DELAY * Pow2(retryCount) * 1100
    /\ backoff.value <= MAX_RETRY_DELAY * 1100

\* C11 amended: the delay lies in [d, d * 1.1] for
\* d = min(base * 2^n, max_delay), so it never exceeds max_delay * 1.1; the
\* interval is [base * 2^n, base * 2^n * 1.1] whenever base * 2^n is at most
\* max_delay, which covers every retry the page fetch makes (n < RETRY_LIMIT).
C11_DelayWithinCappedInterval ==
  backoff.kind = "returned" =>
    LET doubled == INITIAL_RETRY_DELAY * Pow2(retryCount)
        d == Min(doubled, MAX_RETRY_DELAY)
    IN  /\ backoff.value >= d * 1000
        /\ backoff.value <= d * 1100
        /\ backoff.value <= MAX_RETRY_DELAY * 1100
        /\ doubled <= MAX_RETRY_DELAY =>
             /\ backoff.value >= doubled * 1000
             /\ backoff.value <= doubled * 1100
        /\ retryCount < RETRY_LIMIT => doubled <= MAX_RETRY_DELAY

\* C11 witness: above the cap the delay with full jitter is max_delay * 1.1.
C11_Witness ==
  /\ backoff.kind = "returned"
  /\ retryCount = 6
  /\ backoff.value = MAX_RETRY_DELAY * 1100

\* The rows of the file at FINAL_CSV_PATH have been filtered.
Filtered == cpc \in {"convert", "done"}

\* One of the taxonomy-code columns 1..15 of the row holds a target code.
HoldsTargetCode(row) ==
  \E c \in Range(TAXONOMY_COLS) :
    row[c] \in {PyStr(<<"324500000X">>), PyStr(<<"3245S0500X">>)}

\* Index of the first row of the file equal to row.
FirstIndex(rows, row) ==
  CHOOSE i \in 1..Len(rows) :
    rows[i] = row /\ \A j \in 1..(i - 1) : rows[j] # row

RawTaxonomies == Get(raw, "taxonomies", PyList(<<>>)).items

PrimaryPositions ==
  {i \in 1..Len(RawTaxonomies) : RawTaxonomies[i].items["primary"] = PyBool(TRUE)}

TaxonomyTakenFrom(t) ==
  /\ parsed.value.taxonomy_code = t.items["code"]
  /\ parsed.value.taxonomy_desc = t.items["desc"]

\* C22: taxonomy_code and taxonomy_desc come from the one entry flagged
\* primary, wherever it stands in the list; from the first entry when none
\* is flagged; and both are None when the record has no entries.
C22_PrimaryTaxonomySelected ==
  parsed.kind = "returned" =>
    /\ \A i \in 1..Len(RawTaxonomies) :
         PrimaryPositions = {i} => TaxonomyTakenFrom(RawTaxonomies[i])
    /\ (PrimaryPositions = {} /\ RawTaxonomies # <<>>)
         => TaxonomyTakenFrom(RawTaxonomies[1])
    /\ RawTaxonomies = <<>> =>
         /\ parsed.value.taxonomy_code = PyNone
         /\ parsed.value.taxonomy_desc = PyNone

\* C22 witness: the primary entry stood second of two and was taken.
C22_Witness ==
  /\ parsed.kind = "returned"
  /\ Len(RawTaxonomies) = 2
  /\ PrimaryPositions = {2}
  /\ parsed.value.taxonomy_code = PyStr(<<"324500000X">>)

\* C25: once download_and_extract_csv has returned, the staging directory
\* holds exactly one entry, the file at FINAL_CSV_PATH with the data just
\* extracted from the archive (not a file an earlier run left there); the
\* archive and every other file or sub-directory are gone.
C25_OnlyCanonicalFileRemains ==
  csvPath.kind = "returned" =>
    /\ csvPath.value = FINAL_CSV_PATH
    /\ DOMAIN staging = {FINAL_CSV_NAME}
    /\ staging[FINAL_CSV_NAME]
         = CsvFile(MatchedFiles(zipEntries)[1], zipRows)
    /\ ZIP_NAME \notin DOMAIN staging

\* C25 witness: the published entry was extracted and is all that is left.
C25_Witness ==
  /\ csvPath.kind = "returned"
  /\ extracted = <<"npidata_pfile_20050523-20250511.csv">>
  /\ Len(zipEntries) = 3
  /\ DOMAIN staging = {FINAL_CSV_NAME}
  /\ staging[FINAL_CSV_NAME].origin = "npidata_pfile_20050523-20250511.csv"

\* C26: download_and_extract_csv returns the path only once download,
\* extraction and cleanup have run, in that order; when the download fails,
\* at once or part-way, or a later step fails, the exception reaches the
\* caller of fetch_all_providers_from_csv, no path is returned,
\* parse_csv_to_providers is not run, and what the earlier steps did stays.
C26_PathOnlyAfterAllSteps ==
  /\ [](csvPath.kind = "returned" =>
          /\ cpc \in {"filter", "convert", "done"}
          /\ extracted # <<>>
          /\ DOMAIN staging = {FINAL_CSV_NAME})
  /\ [](csvResult.kind = "raised" =>
          /\ cpc = "raised"
          /\ csvPath = NoOutcome
          /\ df = <<>>
          /\ csvResult.error = "FileNotFoundError" =>
               /\ ZIP_NAME \in DOMAIN staging /\ staging[ZIP_NAME] = ZipFile(TRUE)
               /\ extracted = <<>>
          /\ csvResult.error = "OSError" =>
               /\ extracted # <<>>
               /\ staging[FINAL_CSV_NAME]
                    = CsvFile(MatchedFiles(zipEntries)[1], zipRows)
               /\ ZIP_NAME \in DOMAIN staging)
  /\ [][/\ cpc' = "extract" => cpc = "download"
        /\ cpc' = "cleanup" => cpc = "extract"
        /\ cpc' = "filter" => cpc = "cleanup" /\ csvPath' = Returned(FINAL_CSV_PATH)
        /\ cpc' = "convert" => cpc = "filter"
        /\ csvPath' # csvPath => cpc = "cleanup"
        /\ cpc' = "raised" =>
             /\ cpc \in {"download", "extract", "cleanup"}
             /\ \A n \in DOMAIN staging :
                  n \in DOMAIN staging' /\ (n # ZIP_NAME => staging'[n] = staging[n])
             /\ cpc # "download" => staging' = staging]_vars

\* C26 witness: the download broke off part-way; the partial archive is in
\* the staging directory and no path was returned.
C26_Witness ==
  /\ csvResult = Raised("ClientError")
  /\ cpc = "raised"
  /\ csvPath = NoOutcome
  /\ ZIP_NAME \in DOMAIN staging
  /\ staging[ZIP_NAME] = ZipFile(FALSE)
  /\ zipEntries # <<>>

\* C37: the taxonomy_code of a record of the bulk path is the value of
\* taxonomy-code column 1 of its source row, also for a row the filter kept
\* for a target code in one of the columns 2..15 only; such a record carries
\* a taxonomy_code that is no target code.
C37_TaxonomyCodeIsColumnOne ==
  BulkReturned =>
    LET items == csvResult.value.items
    IN  /\ Len(items) = Len(df)
        /\ \A i \in 1..Len(items) :
             /\ items[i].taxonomy_code = df[i][Col1]
             /\ HoldsTargetCode(df[i])
             /\ \E j \in 1..Len(zipRows) : zipRows[j] = df[i]

\* C37 witness: a row kept for the target code in column 15 was emitted
\* with the code of its column 1, which is no target code.
C37_Witness ==
  /\ BulkReturned
  /\ \E i \in 1..Len(csvResult.value.items) :
       /\ df[i][Col1] \notin TARGET_CODES
       /\ df[i][Col15] \in TARGET_CODES
       /\ csvResult.value.items[i].taxonomy_code = PyStr(<<"261QR0405X">>)
       /\ csvResult.value.items[i].taxonomy_code \notin TARGET_CODES

\* ------------------------------------- claims on the event store (SpecEvents)
\* The add_event calls that have appended their event.
Appended == {t \in Adders : tpc[t] \in {"release", "done"}}

\* C38: however concurrent add_event calls on one EventStore interleave,
\* the stored events carry distinct ids, 1, 2, 3, ... in the order they were
\* appended, every event added is stored once, and what a concurrent
\* list_events returns is taken from a prefix of the stored list and holds no
\* event whose id is still 0.
C38_EventIdsFollowAppendOrder ==
  /\ \A i \in 1..Len(events) : eventId[events[i]] = i
  /\ \A i, j \in 1..Len(events) : i # j => events[i] # events[j]
  /\ Range(events) = Appended
  /\ ~locked => next_id = Len(events) + 1
  /\ Len(snapshot) <= Len(events)
  /\ snapshot = SubSeq(events, 1, Len(snapshot))
  /\ listed.kind = "returned" =>
       LET out == listed.value
           skipped == Len(snapshot) - Len(out)
       IN  /\ out = [i \in 1..Len(out) |->
                       [event |-> events[skipped + i], id |-> skipped + i]]
           /\ \A i \in 1..Len(out) : out[i].id >= 1
           /\ Len(out) = IF list_limit = 0 \/ list_limit >= Len(snapshot)
                           THEN Len(snapshot) ELSE list_limit

\* C38 witness: every add_event call has finished, and list_events, run in
\* between them, returned the first two of the three events.
C38_Witness ==
  /\ \A t \in Adders : tpc[t] = "done"
  /\ Len(events) = MaxAdders
  /\ list_limit = 100
  /\ listed.kind = "returned"
  /\ Len(listed.value) = 2
  /\ listed.value[2].id = 2

\* ------------------------- claims on both normalizers (SpecNormalizers)
CanonicalAttributes ==
  {"npi_number", "organization_name", "address", "city", "state",
   "postal_code", "phone", "taxonomy_code", "taxonomy_desc",
   "authorized_official", "last_updated"}

\* C23: every record of the live-API path and every record of the bulk path
\* has exactly the eleven canonical attributes, whatever the source record
\* held.
C23_SameElevenAttributes ==
  /\ Cardinality(CanonicalAttributes) = 11
  /\ parsed.kind = "returned" => DOMAIN parsed.value = CanonicalAttributes
  /\ BulkReturned =>
       \A i \in 1..Len(csvResult.value.items) :
         DOMAIN csvResult.value.items[i] = CanonicalAttributes

\* C23 witness: the bulk path returned the record of a row whose name
\* columns are all empty.
C23_Witness ==
  /\ BulkReturned
  /\ Len(df) = 1
  /\ df[1]["Authorized Official First Name"] = NaN
  /\ df[1]["Authorized Official Last Name"] = NaN
  /\ Len(csvResult.value.items) = 1
  /\ csvResult.value.items[1].authorized_official = PyNone

\* ------------------------- claims on the official's name (SpecParse, SpecCsv)
\* The text of a name part; an absent part (missing, empty or NaN) has none.
PartText(v) == IF v.type = "str" THEN v.value ELSE <<>>

\* The non-empty parts joined by single spaces, None when there is none.
JoinedOfficial(first, middle, last) ==
  LET present == SelectSeq(<<PartText(first), PartText(middle), PartText(last)>>,
                           LAMBDA q : q # <<>>)
  IN  IF present = <<>> THEN PyNone ELSE PyStr(Join(present, <<" ">>))

\* C21: in the live-API normalizer and in the bulk mapper authorized_official
\* is the non-empty ones of the first, middle and last name, in that order,
\* joined by single spaces, and None exactly when all three are absent.
C21_OfficialJoinsNameParts ==
  /\ parsed.kind = "returned" =>
       LET basic == Get(raw, "basic", EmptyDict)
       IN  parsed.value.authorized_official
             = JoinedOfficial(
                 Get(basic, "authorized_official_first_name", EmptyStr),
                 Get(basic, "authorized_official_middle_name", EmptyStr),
                 Get(basic, "authorized_official_last_name", EmptyStr))
  /\ BulkReturned =>
       \A i \in 1..Len(df) :
         csvResult.value.items[i].authorized_official
           = JoinedOfficial(df[i]["Authorized Official First Name"],
                            df[i]["Authorized Official Middle Name"],
                            df[i]["Authorized Official Last Name"])
====
